---- MODULE Spec2Model ----
(***************************************************************************)
(* A model of the mzML -> ISA-Tab converter:                               *)
(*   - the ISA-Tab generator        (src/mzml2isa/isa.py, class ISA_Tab)   *)
(*   - the mzML metadata extractor  (src/mzml_2_isa/mzml.py, mzMLmeta)     *)
(*   - the ontology closure and the default/override merge, which the      *)
(*     sources import (obo.oboparse, versionutils.dict_update).            *)
(* Python list indices are 0-based; sequences here are 1-based, so a       *)
(* Python index i is position i+1 below.                                   *)
(***************************************************************************)
EXTENDS Integers, Sequences, FiniteSets, TLC

VARIABLES
    pc,                \* position of the running driver
    tpl,               \* generator: the default assay template read from default/
    metalist,          \* generator: the list of ISA-renamed metadata records
    separate_polarity, \* generator: the polarity-split flag
    idx,               \* generator: position of the "for file_meta in metalist" loop
    pre_row,           \* generator: pre_row (mutated by the Sample Name case)
    new_mass_row,      \* generator: self.new_mass_row
    sample_names,      \* generator: self.sample_names
    full_row,          \* generator: full_row
    headers_row,       \* generator: headers_row (replaced by the pruned header)
    todo,              \* generator: polarities not yet iterated by the split loop
    written_assays,    \* generator: self.written_assays
    files,             \* generator: assay files on disk, file name -> [header, rows]
    investigation,     \* generator: lines written to the investigation file
    study_file,        \* generator: rows written to the study file
    graph,             \* ontology: the term graph loaded from the flat file
    query,             \* ontology: the term id last passed to getDescendents
    result,            \* ontology: the set getDescendents returned
    tree,              \* extractor: self.tree, the parsed mzML document
    in_file,           \* extractor: self.in_file, the path of the mzML file
    order,             \* extractor: the order in which the xpaths dict is iterated
    loc,               \* extractor: position of the "for location_name" loop
    meta,              \* extractor: self.meta, an ordered list of <<key, value>>
    meta_isa,          \* extractor: self.meta_isa, an ordered list of <<key, value>>
    override,          \* merge: the usermeta argument of the generator
    usermeta,          \* merge: self.usermeta
    row_main,          \* row update: the column index passed to update_row
    row_key,           \* row update: the key of the field being placed
    row_value,         \* row update: the value (meta_val) being placed
    headers_l,         \* legacy updater: the header line of the assay file
    standard_row,      \* legacy updater: the second line of the assay file
    located,           \* legacy updater: the column indices that are bound
    reported,          \* legacy updater: what "print e" has printed
    new_file,          \* legacy updater: the lines written to isa_new.txt
    platform           \* platform summary: self.isa_env['platform']

gen_vars == <<pc, tpl, metalist, separate_polarity, idx, pre_row, new_mass_row,
              sample_names, full_row, headers_row, todo, written_assays, files,
              investigation, study_file>>

obo_vars == <<graph, query, result>>

ext_vars == <<tree, in_file, order, loc, meta, meta_isa>>

mrg_vars == <<override, usermeta>>

row_vars == <<row_main, row_key, row_value>>

upd_vars == <<headers_l, standard_row, located, reported, new_file>>

plat_vars == <<platform>>

vars == <<gen_vars, obo_vars, ext_vars, mrg_vars, row_vars, upd_vars, plat_vars>>

-----------------------------------------------------------------------------
(* Bounds of the model *)

\* longest list of metadata records handed to the generator
MaxRecords == 3

\* number of [Term] stanzas of the ontology files the loader is run on
MaxTerms == 4

\* most cvParam elements of a document's six locations, and of a parameter group
MaxCvParams == 2

\* most spectra of a document's run
MaxSpectra == 2

\* most leaves and empty sections a caller's usermeta override holds
MaxOverrides == 2

\* most entries of the entry_list of a field placed on its own
MaxEntries == 3

-----------------------------------------------------------------------------
(* Each specification below runs one component; the variables of the other  *)
(* components stay at these values.                                          *)

GenIdle ==
    /\ tpl = <<>>
    /\ metalist = <<>>
    /\ separate_polarity = TRUE
    /\ idx = 1
    /\ pre_row = <<>>
    /\ new_mass_row = <<>>
    /\ sample_names = <<>>
    /\ full_row = <<>>
    /\ headers_row = <<>>
    /\ todo = {}
    /\ written_assays = <<>>
    /\ files = <<>>
    /\ investigation = <<>>
    /\ study_file = <<>>

OboIdle ==
    /\ graph = <<>>
    /\ query = 0
    /\ result = {}

ExtIdle ==
    /\ tree = <<>>
    /\ in_file = <<>>
    /\ order = <<>>
    /\ loc = 1
    /\ meta = <<>>
    /\ meta_isa = <<>>

MrgIdle ==
    /\ override = <<>>
    /\ usermeta = <<>>

RowIdle ==
    /\ row_main = 0
    /\ row_key = ""
    /\ row_value = <<>>

UpdIdle ==
    /\ headers_l = <<>>
    /\ standard_row = <<>>
    /\ located = <<>>
    /\ reported = <<>>
    /\ new_file = <<>>

PlatIdle == platform = <<>>

\* the variables a generator step leaves alone
NotGen == <<obo_vars, ext_vars, mrg_vars, row_vars, upd_vars, plat_vars>>

-----------------------------------------------------------------------------
(* Generic helpers *)

Range(s) == {s[i] : i \in DOMAIN s}

\* list.index(x): the first position holding x (0 when absent: ValueError)
IndexOf(s, x) ==
    IF \E i \in DOMAIN s : s[i] = x
    THEN CHOOSE i \in DOMAIN s : s[i] = x /\ \A j \in 1..(i-1) : s[j] # x
    ELSE 0

\* [item for i, item in enumerate(s) if i not in del]
RECURSIVE FilterIdx(_, _, _)
FilterIdx(s, del, i) ==
    IF i > Len(s) THEN <<>>
    ELSE (IF i \in del THEN <<>> ELSE <<s[i]>>) \o FilterIdx(s, del, i + 1)

Blank(n) == [i \in 1..n |-> ""]

-----------------------------------------------------------------------------
(* Python strings.  A cell is a TLA+ string; Chars gives the characters of   *)
(* the strings that occur in the model, so that slicing (s[:3], l[:11]) and  *)
(* str.upper() are computed character by character.                         *)

Chars(s) ==
    CASE s = "" -> <<>>
      [] s = "positive" -> <<"p", "o", "s", "i", "t", "i", "v", "e">>
      [] s = "negative" -> <<"n", "e", "g", "a", "t", "i", "v", "e">>
      [] s = "positive/negative" -> <<"p", "o", "s", "i", "t", "i", "v", "e", "/", "n", "e", "g", "a", "t", "i", "v", "e">>
      [] s = "Not determined" -> <<"N", "o", "t", " ", "d", "e", "t", "e", "r", "m", "i", "n", "e", "d">>
      [] s = "MS" -> <<"M", "S">>
      [] s = "UO" -> <<"U", "O">>
      [] s = "IMS" -> <<"I", "M", "S">>
      [] s = "MS:1000932" -> <<"M", "S", ":", "1", "0", "0", "0", "9", "3", "2">>
      [] s = "MS:1001911" -> <<"M", "S", ":", "1", "0", "0", "1", "9", "1", "1">>
      [] s = "Q Exactive" -> <<"Q", " ", "E", "x", "a", "c", "t", "i", "v", "e">>
      [] s = "MS:1000579" -> <<"M", "S", ":", "1", "0", "0", "0", "5", "7", "9">>
      [] s = "MS1 spectrum" -> <<"M", "S", "1", " ", "s", "p", "e", "c", "t", "r", "u", "m">>
      [] s = "MS:1000580" -> <<"M", "S", ":", "1", "0", "0", "0", "5", "8", "0">>
      [] s = "MSn spectrum" -> <<"M", "S", "n", " ", "s", "p", "e", "c", "t", "r", "u", "m">>
      [] s = "MS:1000294" -> <<"M", "S", ":", "1", "0", "0", "0", "2", "9", "4">>
      [] s = "mass spectrum" -> <<"m", "a", "s", "s", " ", "s", "p", "e", "c", "t", "r", "u", "m">>
      [] s = "s1" -> <<"s", "1">>
      [] s = "s2" -> <<"s", "2">>
      [] s = "s3" -> <<"s", "3">>
      [] s = "s4" -> <<"s", "4">>
      [] s = "s5" -> <<"s", "5">>
      [] s = "Mass spectrometry" -> <<"M", "a", "s", "s", " ", "s", "p", "e", "c", "t", "r", "o", "m", "e", "t", "r", "y">>
      [] s = "Data transformation" -> <<"D", "a", "t", "a", " ", "t", "r", "a", "n", "s", "f", "o", "r", "m", "a", "t", "i", "o", "n">>
      [] s = "Metabolite identification" -> <<"M", "e", "t", "a", "b", "o", "l", "i", "t", "e", " ", "i", "d", "e", "n", "t", "i", "f", "i", "c", "a", "t", "i", "o", "n">>
      [] s = "Study Identifier" -> <<"S", "t", "u", "d", "y", " ", "I", "d", "e", "n", "t", "i", "f", "i", "e", "r">>
      [] s = "Study File Name" -> <<"S", "t", "u", "d", "y", " ", "F", "i", "l", "e", " ", "N", "a", "m", "e">>
      [] s = "Study Assay File Name" -> <<"S", "t", "u", "d", "y", " ", "A", "s", "s", "a", "y", " ", "F", "i", "l", "e", " ", "N", "a", "m", "e">>
      [] s = "Study Assay Measurement Type" -> <<"S", "t", "u", "d", "y", " ", "A", "s", "s", "a", "y", " ", "M", "e", "a", "s", "u", "r", "e", "m", "e", "n", "t", " ", "T", "y", "p", "e">>
      [] s = "Study Assay Technology Type" -> <<"S", "t", "u", "d", "y", " ", "A", "s", "s", "a", "y", " ", "T", "e", "c", "h", "n", "o", "l", "o", "g", "y", " ", "T", "y", "p", "e">>
      [] s = "Study Assay" -> <<"S", "t", "u", "d", "y", " ", "A", "s", "s", "a", "y">>

\* str.upper() on one character
Upper(c) ==
    CASE c = "a" -> "A"
      [] c = "b" -> "B"
      [] c = "c" -> "C"
      [] c = "d" -> "D"
      [] c = "e" -> "E"
      [] c = "f" -> "F"
      [] c = "g" -> "G"
      [] c = "h" -> "H"
      [] c = "i" -> "I"
      [] c = "j" -> "J"
      [] c = "k" -> "K"
      [] c = "l" -> "L"
      [] c = "m" -> "M"
      [] c = "n" -> "N"
      [] c = "o" -> "O"
      [] c = "p" -> "P"
      [] c = "q" -> "Q"
      [] c = "r" -> "R"
      [] c = "s" -> "S"
      [] c = "t" -> "T"
      [] c = "u" -> "U"
      [] c = "v" -> "V"
      [] c = "w" -> "W"
      [] c = "x" -> "X"
      [] c = "y" -> "Y"
      [] c = "z" -> "Z"
      [] OTHER -> c

\* s[:n]
Prefix(cs, n) == SubSeq(cs, 1, IF Len(cs) < n THEN Len(cs) ELSE n)

\* polarity[:3].upper()
PolaritySuffix(polarity) ==
    LET p == Prefix(Chars(polarity), 3) IN [i \in 1..Len(p) |-> Upper(p[i])]

-----------------------------------------------------------------------------
(* The default assay template (default/a_mzML_parse.txt): a header line and  *)
(* one representative row, already stripped of quotes and tab-split.  The    *)
(* generator works with whatever template the directory holds; two layouts   *)
(* of the MS block are modelled, one with the polarity column first and one  *)
(* with the polarity column after prunable columns.                          *)

AssayPre == <<"Sample Name", "Protocol REF">>
AssayPolarity == <<"Parameter Value[Scan polarity]">>
AssayInstrument ==
    <<"Parameter Value[Instrument]", "Term Source REF", "Term Accession Number">>
AssayContent ==
    <<"Parameter Value[Data file content]", "Term Source REF", "Term Accession Number",
      "Parameter Value[Data file content]", "Term Source REF", "Term Accession Number">>
AssayTail ==
    <<"Protocol REF", "Normalization Name", "Derived Spectral Data File",
      "Protocol REF", "Metabolite Assignment File">>

StandardRow(n) ==
    [i \in 1..n |->
        IF i = 2 THEN "Mass spectrometry"
        ELSE IF i = n - 4 THEN "Data transformation"
        ELSE IF i = n - 1 THEN "Metabolite identification"
        ELSE ""]

\* isa.py 225-237: the template as read, with the column positions and the
\* slices that create_assay takes from it once, before the record loop
TemplateOf(headers) ==
    LET standard == StandardRow(Len(headers))
        mp == IndexOf(standard, "Mass spectrometry")
        me == IndexOf(standard, "Metabolite identification")
    IN  [headers |-> headers,
         standard |-> standard,
         sample_name_idx |-> IndexOf(headers, "Sample Name"),
         mass_protocol_idx |-> mp,
         mass_end_idx |-> me,
         polarity_idx |-> IndexOf(headers, "Parameter Value[Scan polarity]"),
         mass_headers |-> SubSeq(headers, mp + 1, me - 1),
         post_row |-> SubSeq(standard, me, Len(standard))]

Templates ==
    { TemplateOf(AssayPre \o AssayPolarity \o AssayInstrument \o AssayContent \o AssayTail),
      TemplateOf(AssayPre \o AssayInstrument \o AssayContent \o AssayPolarity \o AssayTail) }

\* the locals of create_assay (Python slices [a:b] are positions a+1..b)
sample_name_idx == tpl.sample_name_idx
mass_protocol_idx == tpl.mass_protocol_idx
mass_end_idx == tpl.mass_end_idx
polarity_idx == tpl.polarity_idx
mass_headers == tpl.mass_headers
post_row == tpl.post_row

-----------------------------------------------------------------------------
(* Metadata records: an ordered mapping, here a sequence of <<key, value>>.  *)
(* A value is a record with some of the fields name, accession, value, or    *)
(* with the single field entry_list (the entries in insertion order).        *)

QExactive == [accession |-> "MS:1001911", name |-> "Q Exactive"]
MS1Spectrum == [accession |-> "MS:1000579", name |-> "MS1 spectrum"]
MSnSpectrum == [accession |-> "MS:1000580", name |-> "MSn spectrum"]
MassSpectrum == [accession |-> "MS:1000294", name |-> "mass spectrum"]

MetaRecord(sample, polarity, instrument, content) ==
    (IF sample = "" THEN <<>> ELSE << <<"Sample Name", [value |-> sample]>> >>)
    \o (IF content = <<>> THEN <<>>
        ELSE << <<"Parameter Value[Data file content]", [entry_list |-> content]>> >>)
    \o (IF instrument THEN << <<"Parameter Value[Instrument]", QExactive>> >> ELSE <<>>)
    \o (IF polarity = "" THEN <<>>
        ELSE << <<"Parameter Value[Scan polarity]", [value |-> polarity]>> >>)

\* the records the generator is run on: the fourth is a record as the
\* extractor of mzml.py emits it, without a "Sample Name" key; the last one
\* is a record that holds a sample name only
RecordKinds ==
    { MetaRecord("s1", "positive", TRUE, <<MS1Spectrum>>),
      MetaRecord("s2", "negative", FALSE, <<MS1Spectrum, MSnSpectrum, MassSpectrum>>),
      MetaRecord("s3", "positive/negative", FALSE, <<>>),
      MetaRecord("", "Not determined", TRUE, <<MS1Spectrum, MSnSpectrum>>),
      MetaRecord("s5", "", FALSE, <<>>) }

\* file_meta[key] for a key the record holds
FieldOf(file_meta, key) ==
    file_meta[CHOOSE i \in DOMAIN file_meta : file_meta[i][1] = key][2]

HasField(file_meta, key) == \E i \in DOMAIN file_meta : file_meta[i][1] = key

-----------------------------------------------------------------------------
(* ISA_Tab.update_row.  st = [row, ok]; ok becomes FALSE when an assignment  *)
(* falls outside the row (IndexError).                                       *)

Put(st, i, v) ==
    IF ~st.ok \/ i < 1 \/ i > Len(st.row)
    THEN [row |-> st.row, ok |-> FALSE]
    ELSE [row |-> [st.row EXCEPT ![i] = v], ok |-> TRUE]

\* a variant that writes the value at the target column itself
update_row_ValueAtMain(st, main, meta_val) ==
    LET hasN == "name" \in DOMAIN meta_val
        hasA == "accession" \in DOMAIN meta_val
        hasV == "value" \in DOMAIN meta_val
        s1 == IF hasN THEN Put(st, main, meta_val.name) ELSE st
        m1 == IF hasN THEN main + 1 ELSE main
        s2 == IF hasA THEN Put(Put(s1, m1, "MS"), m1 + 1, meta_val.accession) ELSE s1
    IN  IF hasV THEN Put(s2, main, meta_val.value) ELSE s2

\* isa.py 335-370
update_row(st, main, meta_val) ==
    LET hasN == "name" \in DOMAIN meta_val
        hasA == "accession" \in DOMAIN meta_val
        hasV == "value" \in DOMAIN meta_val
        s1 == IF hasN THEN Put(st, main, meta_val.name) ELSE st
        m1 == IF hasN THEN main + 1 ELSE main
        s2 == IF hasA THEN Put(Put(s1, m1, "MS"), m1 + 1, meta_val.accession) ELSE s1
        m2 == IF hasA THEN m1 + 2 ELSE m1
    IN  IF hasV THEN Put(s2, m2, meta_val.value) ELSE s2

\* isa.py 264: the MS-block columns whose header equals key, left to right
ColumnsOf(key) == {i \in DOMAIN mass_headers : mass_headers[i] = key}

\* a variant that hands the columns out from the right
NthColumn_FromRight(key, j) ==
    CHOOSE i \in ColumnsOf(key) : Cardinality({k \in ColumnsOf(key) : k > i}) = j - 1

\* isa.py 266-270: indices reversed, then indices.pop()
NthColumn(key, j) ==
    CHOOSE i \in ColumnsOf(key) : Cardinality({k \in ColumnsOf(key) : k < i}) = j - 1

\* isa.py 262-275: entries are consumed into the columns one at a time;
\* an entry with no column left is passed over
RECURSIVE ConsumeEntries(_, _, _, _)
ConsumeEntries(st, key, entries, j) ==
    IF j > Len(entries) THEN st
    ELSE IF j > Cardinality(ColumnsOf(key)) THEN ConsumeEntries(st, key, entries, j + 1)
    ELSE ConsumeEntries(update_row(st, NthColumn(key, j), entries[j]), key, entries, j + 1)

\* isa.py 251-284: one key of one record.  b = [pre, mass, names, ok]
ProcessField(b, key, value) ==
    LET isSample == key = "Sample Name"
        pre == IF isSample THEN [b.pre EXCEPT ![sample_name_idx] = value.value] ELSE b.pre
        names == IF isSample THEN Append(b.names, value.value) ELSE b.names
        st0 == [row |-> b.mass, ok |-> b.ok]
        st1 == IF "entry_list" \in DOMAIN value
               THEN ConsumeEntries(st0, key, value.entry_list, 1)
               ELSE IF IndexOf(mass_headers, key) = 0 THEN st0
               ELSE update_row(st0, IndexOf(mass_headers, key), value)
    IN  [pre |-> pre, mass |-> st1.row, names |-> names, ok |-> st1.ok]

RECURSIVE ProcessRecord(_, _, _)
ProcessRecord(b, file_meta, k) ==
    IF k > Len(file_meta) \/ ~b.ok THEN b
    ELSE ProcessRecord(ProcessField(b, file_meta[k][1], file_meta[k][2]), file_meta, k + 1)

-----------------------------------------------------------------------------
(* ISA_Tab.remove_blank_columns(start, end, full_row, headers_row)           *)

\* a variant that deletes a column as soon as one row leaves it empty
DeleteCols_SomeBlank(start, end, rows) ==
    {i \in start..(end - 4) : \E r \in DOMAIN rows : rows[r][i] = ""}

\* isa.py 384-388: range(start, end-3) is positions start .. end-4 here
DeleteCols(start, end, rows) ==
    {i \in start..(end - 4) : \A r \in DOMAIN rows : rows[r][i] = ""}

\* a variant that prunes the rows and returns the header as it was
remove_blank_columns_KeepHeader(start, end, rows, headers) ==
    LET delete_cols == DeleteCols(start, end, rows)
    IN  [headers |-> headers,
         rows |-> [r \in DOMAIN rows |-> FilterIdx(rows[r], delete_cols, 1)]]

remove_blank_columns(start, end, rows, headers) ==
    LET delete_cols == DeleteCols(start, end, rows)
    IN  [headers |-> FilterIdx(headers, delete_cols, 1),
         rows |-> [r \in DOMAIN rows |-> FilterIdx(rows[r], delete_cols, 1)]]

-----------------------------------------------------------------------------
(* File names of isa_env (isa.py 88-97), as sequences of text fragments      *)

StudyName == "name"
AssayFileName == <<"a_", StudyName, "_metabolite_profiling_mass_spectrometry", ".txt">>
AssayPolarFileName(suffix) ==
    <<"a_", StudyName, "_metabolite_profiling_mass_spectrometry", "_">> \o suffix \o <<".txt">>
StudyFileName == <<"s_", StudyName, ".txt">>

-----------------------------------------------------------------------------
(* The default investigation template (default/i_Investigation.txt): lines   *)
(* of a label and tab-separated cells; a cell is its text and whether it is  *)
(* enclosed in double quotes.                                                *)

Cell(q, t) == [q |-> q, t |-> t]

InvestigationTemplate ==
    << [label |-> "Study Identifier", cells |-> <<Cell(TRUE, <<"{study_identifier}">>)>>],
       [label |-> "Study File Name", cells |-> <<Cell(TRUE, <<"{study_file_name}">>)>>],
       [label |-> "Study Assay File Name", cells |-> <<Cell(TRUE, <<"{assay_file_name}">>)>>],
       [label |-> "Study Assay Measurement Type", cells |-> <<Cell(TRUE, <<"metabolite profiling">>)>>],
       [label |-> "Study Assay Technology Type", cells |-> <<Cell(TRUE, <<"mass spectrometry">>)>>] >>

\* isa.py 181: l.format(**self.isa_env, **self.usermeta)
FormatText(t) ==
    CASE t = <<"{study_identifier}">> -> <<StudyName>>
      [] t = <<"{study_file_name}">> -> StudyFileName
      [] t = <<"{assay_file_name}">> -> AssayFileName
      [] OTHER -> t

FormatLine(l) ==
    [label |-> l.label,
     cells |-> [i \in DOMAIN l.cells |-> Cell(l.cells[i].q, FormatText(l.cells[i].t))]]

\* isa.py 171: l[:11] == 'Study Assay'
IsStudyAssayLine(l) == Prefix(Chars(l.label), 11) = Chars("Study Assay")

\* a variant that expands the file-name line only
ExpandLine_FileNameOnly(l, written) ==
    IF IsStudyAssayLine(l) /\ Len(written) # 1 /\ l.label = "Study Assay File Name"
    THEN [label |-> l.label,
          cells |-> [i \in 1..Len(written) |-> Cell(TRUE, written[i])]]
    ELSE l

\* isa.py 171-179: the expansion of one template line for the written assays
ExpandLine(l, written) ==
    IF IsStudyAssayLine(l) /\ Len(written) # 1
    THEN IF l.label = "Study Assay File Name"
         THEN [label |-> l.label,
               cells |-> [i \in 1..Len(written) |-> Cell(TRUE, written[i])]]
         ELSE [label |-> l.label,
               cells |-> IF Len(written) = 0 THEN <<Cell(FALSE, <<>>)>>
                         ELSE [i \in 1..Len(written) |-> l.cells[1]]]
    ELSE l

\* isa.py 168-182
create_investigation(written) ==
    [k \in DOMAIN InvestigationTemplate |->
        FormatLine(ExpandLine(InvestigationTemplate[k], written))]

-----------------------------------------------------------------------------
(* The generator, ISA_Tab.__init__ -> create_assay -> create_investigation   *)

GenInit ==
    /\ OboIdle
    /\ ExtIdle
    /\ MrgIdle
    /\ RowIdle
    /\ UpdIdle
    /\ PlatIdle
    /\ pc = "build"
    /\ tpl \in Templates
    /\ metalist \in UNION {[1..n -> RecordKinds] : n \in 0..MaxRecords}
    /\ separate_polarity \in BOOLEAN
    /\ idx = 1
    /\ pre_row = SubSeq(tpl.standard, 1, mass_protocol_idx)
    /\ new_mass_row = Blank(Len(mass_headers))
    /\ sample_names = <<>>
    /\ full_row = <<>>
    /\ headers_row = tpl.headers
    /\ todo = {}
    /\ written_assays = <<>>
    /\ files = <<>>
    /\ investigation = <<>>
    /\ study_file = <<>>

\* isa.py 249-287: one iteration of "for file_meta in metalist"
BuildRow ==
    /\ pc = "build"
    /\ idx <= Len(metalist)
    /\ LET b == ProcessRecord([pre |-> pre_row, mass |-> new_mass_row,
                               names |-> sample_names, ok |-> TRUE],
                              metalist[idx], 1)
       IN  IF b.ok
           THEN /\ pre_row' = b.pre
                /\ new_mass_row' = b.mass
                /\ sample_names' = b.names
                /\ full_row' = Append(full_row, b.pre \o b.mass \o post_row)
                /\ idx' = idx + 1
                /\ pc' = "build"
           ELSE /\ pc' = "crashed"
                /\ UNCHANGED <<pre_row, new_mass_row, sample_names, full_row, idx>>
    /\ UNCHANGED <<tpl, metalist, separate_polarity, headers_row, todo,
                   written_assays, files, investigation, study_file>>
    /\ UNCHANGED NotGen

\* isa.py 297: set([x[polarity_idx] for x in full_row])
PolaritiesOf(rows) == {rows[r][polarity_idx] : r \in DOMAIN rows}

\* isa.py 292-303: pruning, the polarity set and the choice of the branch
PruneAndSplit ==
    /\ pc = "build"
    /\ idx > Len(metalist)
    /\ LET res == remove_blank_columns(mass_protocol_idx, mass_end_idx, full_row, headers_row)
       IN  /\ headers_row' = res.headers
           /\ full_row' = res.rows
           /\ written_assays' = <<>>
           /\ IF \E r \in DOMAIN res.rows : polarity_idx > Len(res.rows[r])
              THEN pc' = "crashed" /\ todo' = {}
              ELSE LET polarities == PolaritiesOf(res.rows)
                   IN  IF Cardinality(polarities) = 1 \/ ~separate_polarity
                       THEN pc' = "single" /\ todo' = {}
                       ELSE /\ todo' = polarities
                            /\ pc' = IF polarities = {} THEN "investigation" ELSE "split"
    /\ UNCHANGED <<tpl, metalist, separate_polarity, idx, pre_row, new_mass_row,
                   sample_names, files, investigation, study_file>>
    /\ UNCHANGED NotGen

\* isa.py 309 / 326
data_tran_idx == IndexOf(headers_row, "Derived Spectral Data File") - 2

WriteFile(name, header, rows) ==
    [n \in (DOMAIN files) \cup {name} |->
        IF n = name THEN [header |-> header, rows |-> rows] ELSE files[n]]

\* the rows of rows whose positions are in keep, in order
RECURSIVE SelectRows(_, _, _)
SelectRows(rows, keep, r) ==
    IF r > Len(rows) THEN <<>>
    ELSE (IF r \in keep THEN <<rows[r]>> ELSE <<>>) \o SelectRows(rows, keep, r + 1)

\* isa.py 304-314: one assay file with every row
WriteSingleAssay ==
    /\ pc = "single"
    /\ full_row' = [r \in DOMAIN full_row |->
                        [full_row[r] EXCEPT ![data_tran_idx] = "Data transformation"]]
    /\ files' = WriteFile(AssayFileName, headers_row, full_row')
    /\ written_assays' = Append(written_assays, AssayFileName)
    /\ pc' = "investigation"
    /\ UNCHANGED <<tpl, metalist, separate_polarity, idx, pre_row, new_mass_row,
                   sample_names, headers_row, todo, investigation, study_file>>
    /\ UNCHANGED NotGen

\* isa.py 320, 331
PolarFileName(polarity) == AssayPolarFileName(PolaritySuffix(polarity))

\* isa.py 317-331: one iteration of "for polarity in polarities" (a set:
\* the iteration order is not fixed)
WritePolarityAssay ==
    /\ pc = "split"
    /\ \E polarity \in todo :
          LET keep == {r \in DOMAIN full_row : full_row[r][polarity_idx] = polarity}
          IN  /\ full_row' = [r \in DOMAIN full_row |->
                                 IF r \in keep
                                 THEN [full_row[r] EXCEPT ![data_tran_idx] = "Data transformation"]
                                 ELSE full_row[r]]
              /\ files' = WriteFile(PolarFileName(polarity), headers_row,
                                    SelectRows(full_row', keep, 1))
              /\ written_assays' = Append(written_assays, PolarFileName(polarity))
              /\ todo' = todo \ {polarity}
              /\ pc' = IF todo' = {} THEN "investigation" ELSE "split"
    /\ UNCHANGED <<tpl, metalist, separate_polarity, idx, pre_row, new_mass_row,
                   sample_names, headers_row, investigation, study_file>>
    /\ UNCHANGED NotGen

\* isa.py 160-182
CreateInvestigation ==
    /\ pc = "investigation"
    /\ investigation' = create_investigation(written_assays)
    /\ pc' = "study"
    /\ UNCHANGED <<tpl, metalist, separate_polarity, idx, pre_row, new_mass_row,
                   sample_names, full_row, headers_row, todo, written_assays, files,
                   study_file>>
    /\ UNCHANGED NotGen

\* the default study template (default/s_mzML_parse.txt): a header line and
\* one representative row with placeholders
StudyTemplate ==
    [headers_line |-> <<"Source Name", "Characteristics[Organism]", "Protocol REF",
                        "Sample Name">>,
     default_line |-> <<"{name}", "{characteristics[organism][value]}",
                        "Sample collection", "{name}">>]

\* default_line.format(name=sample_name, **self.usermeta), cell by cell; the
\* generator runs with the default usermeta, whose organism value is blank
FormatStudyLine(line, sample_name) ==
    [i \in DOMAIN line |->
        CASE line[i] = "{name}" -> sample_name
          [] line[i] = "{characteristics[organism][value]}" -> ""
          [] OTHER -> line[i]]

\* isa.py 184-205
create_study(names) ==
    <<StudyTemplate.headers_line>>
    \o [i \in DOMAIN names |-> FormatStudyLine(StudyTemplate.default_line, names[i])]

CreateStudy ==
    /\ pc = "study"
    /\ study_file' = create_study(sample_names)
    /\ pc' = "done"
    /\ UNCHANGED <<tpl, metalist, separate_polarity, idx, pre_row, new_mass_row,
                   sample_names, full_row, headers_row, todo, written_assays, files,
                   investigation>>
    /\ UNCHANGED NotGen

GenNext ==
    \/ BuildRow
    \/ PruneAndSplit
    \/ WriteSingleAssay
    \/ WritePolarityAssay
    \/ CreateInvestigation
    \/ CreateStudy

SpecGen == GenInit /\ [][GenNext]_vars

-----------------------------------------------------------------------------
(* Properties of the generator                                               *)

\* the Scan polarity value of record i ("" when the record carries none)
RecordPolarity(i) ==
    IF HasField(metalist[i], "Parameter Value[Scan polarity]")
    THEN FieldOf(metalist[i], "Parameter Value[Scan polarity]").value
    ELSE ""

CompleteRecords == \A i \in DOMAIN metalist : RecordPolarity(i) # ""

PolarityValues == {RecordPolarity(i) : i \in DOMAIN metalist}

RowsOfPolarity(v) ==
    SelectRows(full_row, {i \in DOMAIN metalist : RecordPolarity(i) = v}, 1)

\* the index taken before pruning still designates the polarity column
PolarityColumnInPlace ==
    /\ polarity_idx <= Len(headers_row)
    /\ headers_row[polarity_idx] = "Parameter Value[Scan polarity]"

\* C1: polarity split.  Once the assay files are written for a list of
\* records that all carry a Scan polarity (and pruning left the polarity
\* column in place): with splitting enabled and more than one distinct
\* polarity value, there is exactly one assay file per distinct value, named
\* with the uppercase first 3 characters of the value and holding exactly the
\* rows of that polarity; with splitting disabled or a single distinct value,
\* there is exactly one assay file holding every row.
C1_PolaritySplit ==
    (pc = "done" /\ CompleteRecords /\ PolarityColumnInPlace) =>
        IF separate_polarity /\ Cardinality(PolarityValues) > 1
        THEN /\ Len(written_assays) = Cardinality(PolarityValues)
             /\ Cardinality(DOMAIN files) = Cardinality(PolarityValues)
             /\ \A v \in PolarityValues :
                   /\ PolarFileName(v) \in DOMAIN files
                   /\ files[PolarFileName(v)].rows = RowsOfPolarity(v)
        ELSE (~separate_polarity \/ Cardinality(PolarityValues) = 1) =>
             /\ written_assays = <<AssayFileName>>
             /\ DOMAIN files = {AssayFileName}
             /\ files[AssayFileName].rows = full_row

\* the columns strictly inside the MS block and not among its last 3
PrunableColumns == (mass_protocol_idx + 1)..(mass_end_idx - 4)

BlankIn(rows, i) == \A r \in DOMAIN rows : rows[r][i] = ""

\* C2: column pruning.  In the pruning step, every prunable column whose cell
\* is empty in every row is deleted from the header and from every row, no
\* column with a non-empty cell in some row is deleted, and the columns that
\* remain keep their order.
C2_PruningRemovesBlankColumns ==
    [][ (pc = "build" /\ idx > Len(metalist)) =>
          LET blank == {i \in PrunableColumns : BlankIn(full_row, i)}
              others == {i \in DOMAIN headers_row : BlankIn(full_row, i)} \ blank
          IN  \E extra \in SUBSET others :
                 /\ headers_row' = FilterIdx(headers_row, blank \cup extra, 1)
                 /\ Len(full_row') = Len(full_row)
                 /\ \A r \in DOMAIN full_row :
                       full_row'[r] = FilterIdx(full_row[r], blank \cup extra, 1)
      ]_vars

\* C2 witness: pruning has run on two or more rows, deleted a column and kept
\* the Instrument column that some row fills
C2_Witness ==
    /\ pc \in {"single", "split"}
    /\ Len(full_row) >= 2
    /\ Len(headers_row) < Len(tpl.headers)
    /\ \E i \in DOMAIN headers_row :
          headers_row[i] = "Parameter Value[Instrument]" /\ ~BlankIn(full_row, i)

\* C3: every assay row, built, pruned or written to a file, has exactly as
\* many cells as the header it goes with.
C3_RowLengthIsHeaderLength ==
    /\ \A r \in DOMAIN full_row : Len(full_row[r]) = Len(headers_row)
    /\ \A n \in DOMAIN files :
          \A r \in DOMAIN files[n].rows : Len(files[n].rows[r]) = Len(files[n].header)

\* C3 witness: rows were built, pruned to a shorter header and written
C3_Witness ==
    /\ pc = "done"
    /\ Len(full_row) >= 2
    /\ Len(headers_row) < Len(tpl.headers)
    /\ \E n \in DOMAIN files : Len(files[n].rows) >= 1

\* C4: investigation writer.  When N > 1 assay files were written, every
\* "Study Assay" line has exactly N cells after its label: the file-name line
\* holds the N written names in the order written, every other one N copies
\* of its (rendered) template value; the other lines keep their cells.
C4_InvestigationExpansion ==
    (pc = "done" /\ Len(written_assays) > 1) =>
        /\ Len(investigation) = Len(InvestigationTemplate)
        /\ \A k \in DOMAIN InvestigationTemplate :
              LET l == InvestigationTemplate[k]
                  o == investigation[k]
              IN  /\ o.label = l.label
                  /\ IF l.label = "Study Assay File Name"
                     THEN /\ Len(o.cells) = Len(written_assays)
                          /\ \A i \in DOMAIN o.cells : o.cells[i] = Cell(TRUE, written_assays[i])
                     ELSE IF l.label \in {"Study Assay Measurement Type",
                                          "Study Assay Technology Type"}
                     THEN /\ Len(o.cells) = Len(written_assays)
                          /\ \A i \in DOMAIN o.cells :
                                o.cells[i] = Cell(l.cells[1].q, FormatText(l.cells[1].t))
                     ELSE /\ Len(o.cells) = Len(l.cells)
                          /\ \A i \in DOMAIN o.cells :
                                o.cells[i] = Cell(l.cells[i].q, FormatText(l.cells[i].t))

\* C4 witness: the investigation file was written after three assay files
C4_Witness == pc = "done" /\ Len(written_assays) = 3 /\ Len(investigation) > 0

\* the MS block of a built row, before pruning
MassBlockOf(row) == SubSeq(row, mass_protocol_idx + 1, mass_protocol_idx + Len(mass_headers))

\* the MS block the fields of one record write into a blank block
OwnMassBlock(file_meta) ==
    ProcessRecord([pre |-> SubSeq(tpl.standard, 1, mass_protocol_idx),
                   mass |-> Blank(Len(mass_headers)),
                   names |-> <<>>, ok |-> TRUE],
                  file_meta, 1).mass

\* C13: while rows are being built, a cell of the MS block of the row of
\* record i is non-empty only if the fields of record i write it: the block
\* is the one record i gives on a blank block.
C13_BlankMassRowPerRecord ==
    pc = "build" =>
        \A i \in DOMAIN full_row :
            \A col \in DOMAIN mass_headers :
                MassBlockOf(full_row[i])[col] # ""
                    => OwnMassBlock(metalist[i])[col] = MassBlockOf(full_row[i])[col]

\* C14: once pruning has run and left the "Parameter Value[Scan polarity]"
\* header in the header row, the index the split reads each row's polarity
\* with is the position of that header in the pruned header row.
C14_PolarityIndexAfterPruning ==
    (/\ pc \in {"single", "split"}
     /\ IndexOf(headers_row, "Parameter Value[Scan polarity]") # 0)
        => polarity_idx = IndexOf(headers_row, "Parameter Value[Scan polarity]")

\* the last n cells of a row
LastCells(row, n) == SubSeq(row, Len(row) - n + 1, Len(row))

\* the number of columns from the last 3 of the MS block to the end of a row
\* of the template's length
KeptTail == Len(tpl.headers) - (mass_end_idx - 4)

\* C15: in the pruning step, for any list of built rows (the empty list
\* included), the columns up to and including the "Mass spectrometry"
\* boundary column and the columns from the last 3 of the MS block onward are
\* still there afterwards, in the header and in every row.
C15_PruningKeepsFrame ==
    [][ (pc = "build" /\ idx > Len(metalist)) =>
          /\ Len(headers_row') >= mass_protocol_idx + KeptTail
          /\ SubSeq(headers_row', 1, mass_protocol_idx)
                = SubSeq(headers_row, 1, mass_protocol_idx)
          /\ LastCells(headers_row', KeptTail) = LastCells(headers_row, KeptTail)
          /\ \A r \in DOMAIN full_row :
                /\ SubSeq(full_row'[r], 1, mass_protocol_idx)
                      = SubSeq(full_row[r], 1, mass_protocol_idx)
                /\ LastCells(full_row'[r], KeptTail) = LastCells(full_row[r], KeptTail)
      ]_vars

\* C16: after generation over N records, sample_names has N entries, the
\* i-th being the sample name of record i; assay row i carries that name in
\* the Sample Name column; and the study file is the template header
\* followed by N rows, row i made from the sample name of record i.
C16_SampleNamesAndStudyRows ==
    pc = "done" =>
        /\ Len(sample_names) = Len(metalist)
        /\ Len(study_file) = 1 + Len(metalist)
        /\ study_file[1] = StudyTemplate.headers_line
        /\ \A i \in DOMAIN metalist :
              /\ HasField(metalist[i], "Sample Name")
              /\ sample_names[i] = FieldOf(metalist[i], "Sample Name").value
              /\ full_row[i][sample_name_idx] = FieldOf(metalist[i], "Sample Name").value
              /\ study_file[i + 1][1] = FieldOf(metalist[i], "Sample Name").value
              /\ study_file[i + 1][4] = FieldOf(metalist[i], "Sample Name").value
-----------------------------------------------------------------------------
(* Placing one field on a row: update_row and the per-key branch of          *)
(* create_assay (isa.py 251-284) run on a row of the template's MS block     *)
(* that is either blank or already holds text in every cell.                 *)

\* an annotation with all three fields, and its restrictions
FullAnnotation ==
    [name |-> "Q Exactive", accession |-> "MS:1001911", value |-> "70000"]

PlainValues == {[f \in S |-> FullAnnotation[f]] : S \in SUBSET DOMAIN FullAnnotation}

Entry(j) == [accession |-> "MS:" \o ToString(j), name |-> "entry " \o ToString(j)]

EntryLists == {[entry_list |-> [j \in 1..k |-> Entry(j)]] : k \in 0..MaxEntries}

RowKeys ==
    { "Parameter Value[Data file content]", "Parameter Value[Instrument]",
      "Parameter Value[Scan polarity]", "Parameter Value[Unknown]" }

Filled(n) == [i \in 1..n |-> "old"]

RowInit ==
    /\ OboIdle
    /\ ExtIdle
    /\ MrgIdle
    /\ UpdIdle
    /\ PlatIdle
    /\ pc = "row"
    /\ tpl \in Templates
    /\ metalist = <<>>
    /\ separate_polarity = TRUE
    /\ idx = 1
    /\ pre_row = SubSeq(tpl.standard, 1, mass_protocol_idx)
    /\ new_mass_row \in {Blank(Len(mass_headers)), Filled(Len(mass_headers))}
    /\ sample_names = <<>>
    /\ full_row = <<>>
    /\ headers_row = tpl.headers
    /\ todo = {}
    /\ written_assays = <<>>
    /\ files = <<>>
    /\ investigation = <<>>
    /\ study_file = <<>>
    /\ row_main \in 1..Len(mass_headers)
    /\ row_key \in RowKeys
    /\ row_value \in PlainValues \cup EntryLists

\* isa.py 335-370: self.update_row(main, meta_val)
UpdateRow ==
    /\ pc = "row"
    /\ LET st == update_row([row |-> new_mass_row, ok |-> TRUE], row_main, row_value)
       IN  /\ new_mass_row' = st.row
           /\ pc' = IF st.ok THEN "updated" ELSE "raised"
    /\ UNCHANGED <<tpl, metalist, separate_polarity, idx, pre_row, sample_names,
                   full_row, headers_row, todo, written_assays, files,
                   investigation, study_file, obo_vars, ext_vars, mrg_vars,
                   row_vars, upd_vars, plat_vars>>

\* isa.py 251-284: the body of "for key, value in file_meta.items()"
PlaceField ==
    /\ pc = "row"
    /\ LET b == ProcessField([pre |-> pre_row, mass |-> new_mass_row,
                              names |-> sample_names, ok |-> TRUE],
                             row_key, row_value)
       IN  /\ pre_row' = b.pre
           /\ new_mass_row' = b.mass
           /\ sample_names' = b.names
           /\ pc' = IF b.ok THEN "placed" ELSE "raised"
    /\ UNCHANGED <<tpl, metalist, separate_polarity, idx, full_row, headers_row,
                   todo, written_assays, files, investigation, study_file,
                   obo_vars, ext_vars, mrg_vars, row_vars, upd_vars, plat_vars>>

RowNext == UpdateRow \/ PlaceField

SpecRow == RowInit /\ [][RowNext]_vars

-----------------------------------------------------------------------------
(* Properties of the row update                                              *)

\* the cells update_row(main, meta_val) assigns, in the order it assigns them
CellsOf(v) ==
    (IF "name" \in DOMAIN v THEN <<v.name>> ELSE <<>>)
    \o (IF "accession" \in DOMAIN v THEN <<"MS", v.accession>> ELSE <<>>)
    \o (IF "value" \in DOMAIN v THEN <<v.value>> ELSE <<>>)

\* C18: the row-update rule.  update_row at target column m writes the name
\* (when the value has one) at m, then "MS" and the accession (when it has
\* one) in the next two columns, then the value (when it has one) in the
\* column after the last cell written; no other cell of the row changes.
C18_RowUpdateRule ==
    [][(pc = "row" /\ pc' = "updated") =>
        LET cells == CellsOf(row_value)
        IN  /\ Len(new_mass_row') = Len(new_mass_row)
            /\ \A i \in DOMAIN new_mass_row :
                   new_mass_row'[i] =
                       IF i \in row_main..(row_main + Len(cells) - 1)
                       THEN cells[i - row_main + 1]
                       ELSE new_mass_row[i]]_vars

\* a name+accession+value annotation has filled m..m+3 of a row that held
\* text everywhere, and the cells around them still hold that text
C18_Witness ==
    /\ pc = "updated"
    /\ row_value = FullAnnotation
    /\ row_main = 3
    /\ SubSeq(new_mass_row, 3, 6) = <<"Q Exactive", "MS", "MS:1001911", "70000">>
    /\ \A i \in DOMAIN new_mass_row : i \notin 3..6 => new_mass_row[i] = "old"

\* the j-th column from the left whose header is the field key
LeftColumn(j) ==
    CHOOSE i \in ColumnsOf(row_key) :
        Cardinality({c \in ColumnsOf(row_key) : c < i}) = j - 1

\* how many entries of the field find a column
Placed ==
    IF Len(row_value.entry_list) < Cardinality(ColumnsOf(row_key))
    THEN Len(row_value.entry_list)
    ELSE Cardinality(ColumnsOf(row_key))

\* C19: entry-list consumption.  For a field with k entries and n MS-block
\* columns headed by its key, entry j is written by the row-update rule at
\* the j-th such column from the left for j <= min(k, n); the entries beyond
\* n raise nothing and change no cell; a plain field whose key heads no
\* MS-block column changes no cell.
C19_EntryListConsumption ==
    [][(pc = "row" /\ pc' \in {"placed", "raised"}) =>
        IF "entry_list" \in DOMAIN row_value
        THEN /\ pc' = "placed"
             /\ Len(new_mass_row') = Len(new_mass_row)
             /\ \A j \in 1..Placed :
                    SubSeq(new_mass_row', LeftColumn(j), LeftColumn(j) + 2)
                        = CellsOf(row_value.entry_list[j])
             /\ \A i \in DOMAIN new_mass_row :
                    (\A j \in 1..Placed : i \notin LeftColumn(j)..(LeftColumn(j) + 2))
                        => new_mass_row'[i] = new_mass_row[i]
        ELSE (pc' = "placed" /\ ColumnsOf(row_key) = {})
                 => new_mass_row' = new_mass_row]_vars

\* three entries were placed on the two "Data file content" columns of a row
\* that held text everywhere: the first two are there, the third is nowhere
C19_Witness ==
    /\ pc = "placed"
    /\ row_key = "Parameter Value[Data file content]"
    /\ "entry_list" \in DOMAIN row_value
    /\ Len(row_value.entry_list) = 3
    /\ Cardinality(ColumnsOf(row_key)) = 2
    /\ new_mass_row[LeftColumn(1)] = "entry 1"
    /\ new_mass_row[LeftColumn(2)] = "entry 2"
    /\ \A i \in DOMAIN new_mass_row : new_mass_row[i] # "entry 3"
    /\ \E i \in DOMAIN new_mass_row : new_mass_row[i] = "old"
-----------------------------------------------------------------------------
(* The legacy assay updater, isa_assay_file.__init__ (src/isa_mzML.py): it   *)
(* reads the header line and the second line of an assay file, looks six     *)
(* columns up inside one try block, and writes isa_new.txt with one patched  *)
(* row per record.  The local index names that are bound are kept in         *)
(* 'located'; positions are 1-based.                                         *)

\* the six lookups in the order of the try block: local name, header text,
\* width of the column group
Lookups ==
    << <<"polarity_idx", "Parameter Value[Scan polarity]", 1>>,
       <<"mzrange_idx", "Parameter Value[Scan m/z range]", 1>>,
       <<"instrument_idx", "Parameter Value[Instrument]", 3>>,
       <<"ionsource_idx", "Parameter Value[Ion source]", 3>>,
       <<"detector_idx", "Parameter Value[Mass analyzer]", 3>>,
       <<"raw_data_idx", "Raw Spectral Data File", 1>> >>

\* the header cells of a column group
GroupHeaders(l) ==
    IF Lookups[l][3] = 1 THEN <<Lookups[l][2]>>
    ELSE <<Lookups[l][2], "Term Source REF", "Term Accession Number">>

RECURSIVE LegacyColumns(_, _)
LegacyColumns(present, l) ==
    IF l > Len(Lookups) THEN <<>>
    ELSE (IF l \in present THEN GroupHeaders(l) ELSE <<>>) \o LegacyColumns(present, l + 1)

\* an assay file that holds the column groups in 'present'
LegacyHeader(present) ==
    <<"Sample Name", "Protocol REF">> \o LegacyColumns(present, 1) \o <<"Normalization Name">>

LegacyRow(present) ==
    <<"sample", "Mass spectrometry">>
    \o [i \in 1..Len(LegacyColumns(present, 1)) |-> "template"]
    \o <<"none">>

\* records as the legacy extractor names their fields
LegacyRecord(n) ==
    [polarity |-> [value |-> IF n = 1 THEN "positive scan" ELSE "negative scan"],
     mzrange |-> [value |-> IF n = 1 THEN "100-1000" ELSE "50-500"],
     instrument_manufacturer |->
        [name |-> "Thermo Fisher Scientific instrument model", accession |-> "MS:1000483"],
     term_source |-> [value |-> "MS"],
     ionization_type |-> [name |-> "nanoelectrospray", accession |-> "MS:1000398"],
     detector_type |-> [name |-> "orbitrap", accession |-> "MS:1000484"],
     raw_data_file |-> [value |-> IF n = 1 THEN "sample1.raw" ELSE "sample2.raw"]]

LegacyRecords == {LegacyRecord(1), LegacyRecord(2)}

\* isa_mzML.py 318: standard_row.index('Mass spectrometry'), as a position
LegacyProtocolPos == IndexOf(standard_row, "Mass spectrometry")

\* head_short.index(text) + adj as a position of headers_l; 0 when index()
\* raises ValueError
LegacyIndex(text) ==
    LET hits == {i \in DOMAIN headers_l : i > LegacyProtocolPos /\ headers_l[i] = text}
    IN  IF hits = {} THEN 0 ELSE CHOOSE i \in hits : \A j \in hits : i <= j

\* isa_mzML.py 323-331: the try block; the first ValueError leaves it
RECURSIVE LocateFrom(_, _)
LocateFrom(st, l) ==
    IF l > Len(Lookups) THEN st
    ELSE IF LegacyIndex(Lookups[l][2]) = 0
    THEN [st EXCEPT !.reported = Append(@, "ValueError: " \o Lookups[l][2])]
    ELSE LocateFrom([st EXCEPT !.located = (Lookups[l][1] :> LegacyIndex(Lookups[l][2])) @@ @],
                    l + 1)

\* isa_mzML.py 341-355: the assignments of one row, <<index name, offset, text>>
LegacyAssignments(file) ==
    << <<"polarity_idx", 0, file.polarity.value>>,
       <<"mzrange_idx", 0, file.mzrange.value>>,
       <<"instrument_idx", 0, file.instrument_manufacturer.name>>,
       <<"instrument_idx", 1, file.term_source.value>>,
       <<"instrument_idx", 2, file.instrument_manufacturer.accession>>,
       <<"ionsource_idx", 0, file.ionization_type.name>>,
       <<"ionsource_idx", 1, file.term_source.value>>,
       <<"ionsource_idx", 2, file.ionization_type.accession>>,
       <<"detector_idx", 0, file.detector_type.name>>,
       <<"detector_idx", 1, file.term_source.value>>,
       <<"detector_idx", 2, file.detector_type.accession>>,
       <<"raw_data_idx", 0, file.raw_data_file.value>> >>

\* the assignments in order; reading an index name that is not bound raises
\* NameError, and the row keeps what was assigned before
RECURSIVE PatchRow(_, _, _)
PatchRow(st, assignments, k) ==
    IF k > Len(assignments) \/ ~st.ok THEN st
    ELSE IF assignments[k][1] \notin DOMAIN located
    THEN [row |-> st.row, ok |-> FALSE]
    ELSE PatchRow(Put(st, located[assignments[k][1]] + assignments[k][2], assignments[k][3]),
                  assignments, k + 1)

UpdInit ==
    /\ OboIdle
    /\ ExtIdle
    /\ MrgIdle
    /\ RowIdle
    /\ PlatIdle
    /\ pc = "locate"
    /\ tpl = <<>>
    /\ metalist \in UNION {[1..n -> LegacyRecords] : n \in 0..MaxRecords}
    /\ separate_polarity = TRUE
    /\ idx = 1
    /\ pre_row = <<>>
    /\ new_mass_row = <<>>
    /\ sample_names = <<>>
    /\ full_row = <<>>
    /\ headers_row = <<>>
    /\ todo = {}
    /\ written_assays = <<>>
    /\ files = <<>>
    /\ investigation = <<>>
    /\ study_file = <<>>
    /\ \E present \in SUBSET (1..Len(Lookups)) :
           /\ headers_l = LegacyHeader(present)
           /\ standard_row = LegacyRow(present)
    /\ located = <<>>
    /\ reported = <<>>
    /\ new_file = <<>>

\* isa_mzML.py 323-331
LocateColumns ==
    /\ pc = "locate"
    /\ LET st == LocateFrom([located |-> located, reported |-> reported], 1)
       IN  /\ located' = st.located
           /\ reported' = st.reported
    /\ pc' = "header"
    /\ UNCHANGED <<headers_l, standard_row, new_file>>
    /\ UNCHANGED <<tpl, metalist, separate_polarity, idx, pre_row, new_mass_row,
                   sample_names, full_row, headers_row, todo, written_assays, files,
                   investigation, study_file, obo_vars, ext_vars, mrg_vars,
                   row_vars, plat_vars>>

\* isa_mzML.py 336-338: writer.writerow(headers_l)
WriteHeaderRow ==
    /\ pc = "header"
    /\ new_file' = <<headers_l>>
    /\ pc' = "rows"
    /\ UNCHANGED <<headers_l, standard_row, located, reported>>
    /\ UNCHANGED <<tpl, metalist, separate_polarity, idx, pre_row, new_mass_row,
                   sample_names, full_row, headers_row, todo, written_assays, files,
                   investigation, study_file, obo_vars, ext_vars, mrg_vars,
                   row_vars, plat_vars>>

\* isa_mzML.py 340-357: one iteration of "for file in metalist"; current_row
\* is standard_row itself
WriteRow ==
    /\ pc = "rows"
    /\ idx <= Len(metalist)
    /\ LET st == PatchRow([row |-> standard_row, ok |-> TRUE],
                          LegacyAssignments(metalist[idx]), 1)
       IN  /\ standard_row' = st.row
           /\ IF st.ok
              THEN new_file' = Append(new_file, st.row) /\ idx' = idx + 1 /\ pc' = "rows"
              ELSE new_file' = new_file /\ idx' = idx /\ pc' = "raised"
    /\ UNCHANGED <<headers_l, located, reported>>
    /\ UNCHANGED <<tpl, metalist, separate_polarity, pre_row, new_mass_row,
                   sample_names, full_row, headers_row, todo, written_assays, files,
                   investigation, study_file, obo_vars, ext_vars, mrg_vars,
                   row_vars, plat_vars>>

\* the loop is over and the file is closed
CloseNewFile ==
    /\ pc = "rows"
    /\ idx > Len(metalist)
    /\ pc' = "done"
    /\ UNCHANGED upd_vars
    /\ UNCHANGED <<tpl, metalist, separate_polarity, idx, pre_row, new_mass_row,
                   sample_names, full_row, headers_row, todo, written_assays, files,
                   investigation, study_file, obo_vars, ext_vars, mrg_vars,
                   row_vars, plat_vars>>

UpdNext == LocateColumns \/ WriteHeaderRow \/ WriteRow \/ CloseNewFile

SpecUpd == UpdInit /\ [][UpdNext]_vars

-----------------------------------------------------------------------------
(* Properties of the legacy assay updater                                    *)

\* the lookups whose header text the assay file holds / does not hold
FoundLookups == {l \in DOMAIN Lookups : LegacyIndex(Lookups[l][2]) # 0}

\* row r of the output holds the record's text in the columns of the lookups
\* that are found, and the template's text everywhere else
RowPatched(r) ==
    LET as == LegacyAssignments(metalist[r])
        target(k) == LegacyIndex(Lookups[CHOOSE l \in DOMAIN Lookups :
                                            Lookups[l][1] = as[k][1]][2])
        patched == {k \in DOMAIN as : target(k) # 0}
    IN  /\ \A k \in patched : new_file[r + 1][target(k) + as[k][2]] = as[k][3]
        /\ \A i \in DOMAIN headers_l :
               (\A k \in patched : i # target(k) + as[k][2])
                   => new_file[r + 1][i] \in {"sample", "Mass spectrometry", "template", "none"}

\* C22: a failed column lookup is tolerated.  When one of the six lookups
\* fails, the failure is reported, every other lookup is still performed,
\* and every output row is written, patched in the columns that were located
\* and unmodified in the column that was not.
C22_LookupFailureTolerated ==
    (pc \notin {"locate"} /\ FoundLookups # DOMAIN Lookups) =>
        /\ reported # <<>>
        /\ \A l \in FoundLookups :
               /\ Lookups[l][1] \in DOMAIN located
               /\ located[Lookups[l][1]] = LegacyIndex(Lookups[l][2])
        /\ pc # "raised"
        /\ pc = "done" =>
               /\ Len(new_file) = 1 + Len(metalist)
               /\ \A r \in DOMAIN metalist : RowPatched(r)
-----------------------------------------------------------------------------
(* The platform summary, ISA_Tab.check_assay_name(metalist), run on lists of *)
(* records that hold an Instrument with name and accession, an Instrument    *)
(* with a name only, or no Instrument.                                       *)

TripleTOF == [accession |-> "MS:1000932", name |-> "TripleTOF 5600"]

PlatformRecord(sample, instrument) ==
    << <<"Sample Name", [value |-> sample]>> >>
    \o (IF instrument = <<>> THEN <<>>
        ELSE << <<"Parameter Value[Instrument]", instrument>> >>)

PlatformRecords ==
    { PlatformRecord("s1", QExactive),
      PlatformRecord("s2", TripleTOF),
      PlatformRecord("s3", [name |-> "Q Exactive"]),
      PlatformRecord("s4", <<>>) }

\* isa.py 126-133: the try block appends the name, then the accession; a
\* KeyError at either leaves what was appended before it
RECURSIVE Collect(_, _, _)
Collect(list, k, field) ==
    IF k > Len(list) THEN <<>>
    ELSE LET meta_k == list[k]
             found == /\ HasField(meta_k, "Parameter Value[Instrument]")
                      /\ "name" \in DOMAIN FieldOf(meta_k, "Parameter Value[Instrument]")
                      /\ field \in DOMAIN FieldOf(meta_k, "Parameter Value[Instrument]")
         IN  (IF found THEN <<FieldOf(meta_k, "Parameter Value[Instrument]")[field]>> ELSE <<>>)
             \o Collect(list, k + 1, field)

\* list.count(x)
Count(list, x) == Cardinality({i \in DOMAIN list : list[i] = x})

\* max(set(list), key=list.count): one of the items with the highest count,
\* whichever the iteration over the set meets first
MostCommon(list) ==
    {x \in Range(list) : \A y \in Range(list) : Count(list, x) >= Count(list, y)}

\* s.split(':')[0] on the characters of s
BeforeColon(cs) ==
    IF \E i \in DOMAIN cs : cs[i] = ":"
    THEN SubSeq(cs, 1, (CHOOSE i \in DOMAIN cs :
                            cs[i] = ":" /\ \A j \in 1..(i - 1) : cs[j] # ":") - 1)
    ELSE cs

\* isa.py 119-158; 'ref' is kept as its characters
check_assay_name(list) ==
    LET instruments == Collect(list, 1, "name")
        accession == Collect(list, 1, "accession")
    IN  IF instruments = <<>> \/ accession = <<>>
        THEN {[name |-> "", accession |-> "", ref |-> BeforeColon(Chars(""))]}
        ELSE {[name |-> c_name, accession |-> c_accession,
               ref |-> BeforeColon(Chars(c_accession))] :
                  c_name \in MostCommon(instruments),
                  c_accession \in MostCommon(accession)}

PlatInit ==
    /\ OboIdle
    /\ ExtIdle
    /\ MrgIdle
    /\ RowIdle
    /\ UpdIdle
    /\ pc = "platform"
    /\ tpl = <<>>
    /\ metalist \in UNION {[1..n -> PlatformRecords] : n \in 0..MaxRecords}
    /\ separate_polarity = TRUE
    /\ idx = 1
    /\ pre_row = <<>>
    /\ new_mass_row = <<>>
    /\ sample_names = <<>>
    /\ full_row = <<>>
    /\ headers_row = <<>>
    /\ todo = {}
    /\ written_assays = <<>>
    /\ files = <<>>
    /\ investigation = <<>>
    /\ study_file = <<>>
    /\ platform = <<>>

\* isa.py 107: self.check_assay_name(metalist)
CheckAssayName ==
    /\ pc = "platform"
    /\ platform' \in check_assay_name(metalist)
    /\ pc' = "checked"
    /\ UNCHANGED <<tpl, metalist, separate_polarity, idx, pre_row, new_mass_row,
                   sample_names, full_row, headers_row, todo, written_assays, files,
                   investigation, study_file, obo_vars, ext_vars, mrg_vars,
                   row_vars, upd_vars>>

PlatNext == CheckAssayName

SpecPlat == PlatInit /\ [][PlatNext]_vars

-----------------------------------------------------------------------------
(* Properties of the platform summary                                        *)

\* the Instrument annotations of the records that hold one
InstrumentsOf(list) ==
    {FieldOf(list[k], "Parameter Value[Instrument]") :
        k \in {i \in DOMAIN list : HasField(list[i], "Parameter Value[Instrument]")}}

\* how many records hold an Instrument whose field is x
Occurrences(list, field, x) ==
    Cardinality({k \in DOMAIN list :
        /\ HasField(list[k], "Parameter Value[Instrument]")
        /\ field \in DOMAIN FieldOf(list[k], "Parameter Value[Instrument]")
        /\ FieldOf(list[k], "Parameter Value[Instrument]")[field] = x})

\* x is a value of the field with the highest number of occurrences
Majority(list, field, x) ==
    /\ Occurrences(list, field, x) > 0
    /\ \A i \in InstrumentsOf(list) :
           field \in DOMAIN i => Occurrences(list, field, i[field]) <= Occurrences(list, field, x)

C27_PlatformIsOneInstrument ==
    (pc = "checked" /\ InstrumentsOf(metalist) # {}) =>
        \E i \in InstrumentsOf(metalist) :
            /\ DOMAIN i = {"name", "accession"}
            /\ i.name = platform.name
            /\ i.accession = platform.accession

\* the assay files on disk that hold row r
FilesHolding(r) == {n \in DOMAIN files : full_row[r] \in Range(files[n].rows)}

\* C25: no collision in a polarity split.  Once the assay files are written
\* with splitting enabled for records that all carry a Scan polarity (and
\* pruning left the polarity column in place), two distinct polarity values
\* have distinct file names, written_assays names no file twice, and every
\* record's row is in exactly one assay file on disk.
C25_NoAssayNameCollision ==
    (pc = "done" /\ separate_polarity /\ CompleteRecords /\ PolarityColumnInPlace) =>
        /\ \A v, w \in PolarityValues : v # w => PolarFileName(v) # PolarFileName(w)
        /\ \A i, j \in DOMAIN written_assays :
               i # j => written_assays[i] # written_assays[j]
        /\ \A r \in DOMAIN full_row : Cardinality(FilesHolding(r)) = 1

-----------------------------------------------------------------------------
(* The ontology loader (obo.oboparse).  A flat file is a set of [Term]       *)
(* stanzas, each an id with its is_a parents in order; the loader keeps the  *)
(* parents as 'p' and derives the children 'c' by inverting every parent     *)
(* edge.  getDescendents(T) is T with every id reachable over child edges.   *)

\* the graph built from stanzas, a function id -> sequence of parent ids
Load(stanzas) ==
    [t \in DOMAIN stanzas |->
        [p |-> stanzas[t],
         c |-> {u \in DOMAIN stanzas : \E i \in DOMAIN stanzas[u] : stanzas[u][i] = t}]]

\* a variant of the closure walk that stops below the direct children
Descend_OneLevel(g, frontier, seen) ==
    seen \cup frontier \cup UNION {g[t].c : t \in frontier}

\* the closure walk: frontier holds the ids found and not yet expanded
RECURSIVE Descend(_, _, _)
Descend(g, frontier, seen) ==
    IF frontier = {} THEN seen
    ELSE LET next == (UNION {g[t].c : t \in frontier}) \ (seen \cup frontier)
         IN  Descend(g, next, seen \cup frontier)

getDescendents(g, T) == Descend(g, {T}, {})

\* min-first listing of a set of ids
RECURSIVE SeqOfSet(_)
SeqOfSet(S) ==
    IF S = {} THEN <<>>
    ELSE LET m == CHOOSE x \in S : \A y \in S : x <= y
         IN  <<m>> \o SeqOfSet(S \ {m})

\* the flat files over the ids 1..MaxTerms: is_a is a hierarchy, so the ids
\* are numbered with every parent before its children
StanzaFiles ==
    {[t \in 1..MaxTerms |-> SeqOfSet(ps[t])] :
        ps \in {f \in [1..MaxTerms -> SUBSET (1..MaxTerms)] :
                    \A t \in 1..MaxTerms : f[t] \subseteq 1..(t - 1)}}

OboInit ==
    /\ GenIdle
    /\ ExtIdle
    /\ MrgIdle
    /\ RowIdle
    /\ UpdIdle
    /\ PlatIdle
    /\ pc = "obo"
    /\ graph \in {Load(s) : s \in StanzaFiles}
    /\ query = 0
    /\ result = {}

\* one call of getDescendents on the loaded graph
GetDescendents ==
    /\ pc = "obo"
    /\ \E T \in DOMAIN graph :
          /\ query' = T
          /\ result' = getDescendents(graph, T)
    /\ UNCHANGED <<pc, graph, gen_vars, ext_vars, mrg_vars, row_vars, upd_vars, plat_vars>>

OboNext == GetDescendents

SpecObo == OboInit /\ [][OboNext]_vars

\* T and its ancestors, found by walking the declared parents upward
RECURSIVE Ascend(_, _, _)
Ascend(g, frontier, seen) ==
    IF frontier = {} THEN seen
    ELSE LET next == (UNION {Range(g[t].p) : t \in frontier}) \ (seen \cup frontier)
         IN  Ascend(g, next, seen \cup frontier)

\* C10: getDescendents(T) contains T, is {T} for a term without children, and
\* holds exactly the ids reachable from T over child edges: it is closed under
\* child edges and each member has T among its ancestors-or-self.
C10_DescendantClosure ==
    query \in DOMAIN graph =>
        /\ query \in result
        /\ (graph[query].c = {} => result = {query})
        /\ \A u \in result : graph[u].c \subseteq result
        /\ result = {u \in DOMAIN graph : query \in Ascend(graph, {u}, {})}

\* C10 witness: a queried term with a grandchild that is not its child
C10_Witness ==
    /\ query \in DOMAIN graph
    /\ \E u \in result : u \notin graph[query].c /\ u # query
    /\ result # DOMAIN graph

-----------------------------------------------------------------------------
(* The ontology the extractor loads (psi-ms.obo): the stanzas of the terms   *)
(* the term rules and the instrument walk touch, <<id, name, is_a parents>>. *)
(* The X:nn stanzas are a line of instrument models nested 12 levels deep.   *)

PsiMsStanzas ==
    << <<"MS:1000463", "instrument", <<>>>>,
       <<"MS:1000031", "instrument model", <<"MS:1000463">>>>,
       <<"MS:1000483", "Thermo Fisher Scientific instrument model", <<"MS:1000031">>>>,
       <<"MS:1000494", "Thermo Scientific instrument model", <<"MS:1000483">>>>,
       <<"MS:1001911", "Q Exactive", <<"MS:1000494">>>>,
       <<"MS:1000121", "SCIEX instrument model", <<"MS:1000031">>>>,
       <<"MS:1000932", "TripleTOF 5600", <<"MS:1000121">>>>,
       <<"MS:1000529", "instrument serial number", <<>>>>,
       <<"MS:1000524", "data file content", <<>>>>,
       <<"MS:1000579", "MS1 spectrum", <<"MS:1000524">>>>,
       <<"MS:1000580", "MSn spectrum", <<"MS:1000524">>>>,
       <<"MS:1000525", "spectrum representation", <<>>>>,
       <<"MS:1000127", "centroid spectrum", <<"MS:1000525">>>>,
       <<"MS:1000767", "native spectrum identifier format", <<>>>>,
       <<"MS:1000561", "data file checksum type", <<>>>>,
       <<"MS:1000569", "SHA-1", <<"MS:1000561">>>>,
       <<"MS:1000560", "mass spectrometer file format", <<>>>>,
       <<"MS:1000482", "source attribute", <<>>>>,
       <<"MS:1000486", "source potential", <<"MS:1000482">>>>,
       <<"MS:1000008", "ionization type", <<>>>>,
       <<"MS:1000073", "electrospray ionization", <<"MS:1000008">>>>,
       <<"MS:1000398", "nanoelectrospray", <<"MS:1000073">>>>,
       <<"MS:1000007", "inlet type", <<>>>>,
       <<"MS:1000480", "mass analyzer attribute", <<>>>>,
       <<"MS:1000014", "accuracy", <<"MS:1000480">>>>,
       <<"MS:1000443", "mass analyzer type", <<>>>>,
       <<"MS:1000484", "orbitrap", <<"MS:1000443">>>>,
       <<"MS:1000481", "detector attribute", <<>>>>,
       <<"MS:1000028", "detector resolution", <<"MS:1000481">>>>,
       <<"MS:1000026", "detector type", <<>>>>,
       <<"MS:1000027", "detector acquisition mode", <<>>>>,
       <<"MS:1000117", "analog-digital converter", <<"MS:1000027">>>>,
       <<"MS:1000630", "data processing parameter", <<>>>>,
       <<"MS:1000747", "completion time", <<"MS:1000630">>>>,
       <<"MS:1000452", "data transformation", <<>>>>,
       <<"MS:1000544", "Conversion to mzML", <<"MS:1000452">>>>,
       <<"MS:1000511", "ms level", <<>>>>,
       <<"MS:1000615", "ProteoWizard software", <<>>>>,
       <<"MS:1000532", "Xcalibur", <<>>>>,
       <<"X:01", "model line level 1", <<"MS:1000031">>>>,
       <<"X:02", "model line level 2", <<"X:01">>>>,
       <<"X:03", "model line level 3", <<"X:02">>>>,
       <<"X:04", "model line level 4", <<"X:03">>>>,
       <<"X:05", "model line level 5", <<"X:04">>>>,
       <<"X:06", "model line level 6", <<"X:05">>>>,
       <<"X:07", "model line level 7", <<"X:06">>>>,
       <<"X:08", "model line level 8", <<"X:07">>>>,
       <<"X:09", "model line level 9", <<"X:08">>>>,
       <<"X:10", "model line level 10", <<"X:09">>>>,
       <<"X:11", "model line level 11", <<"X:10">>>>,
       <<"X:12", "model line level 12", <<"X:11">>>> >>

PsiMsIds == {PsiMsStanzas[i][1] : i \in DOMAIN PsiMsStanzas}

StanzaOf(t) == PsiMsStanzas[CHOOSE i \in DOMAIN PsiMsStanzas : PsiMsStanzas[i][1] = t]

\* self.obo.terms
OboTerms == Load([t \in PsiMsIds |-> StanzaOf(t)[3]])

\* oboTranslator: accession -> display name
Translator == [t \in PsiMsIds |-> StanzaOf(t)[2]]

\* self.obo.getDescendents(k), for every id of the file
Descendents == [t \in PsiMsIds |-> getDescendents(OboTerms, t)]


-----------------------------------------------------------------------------
(* The mzML metadata extractor: mzMLmeta.__init__ and the methods it runs    *)

\* the xpaths dict: the six cvParam locations
Locations ==
    <<"file_content", "source_file", "ionization", "analyzer", "detector",
      "data_processing">>

Info(accession, attribute, name, plus1, value, soft) ==
    [accession |-> accession, attribute |-> attribute, name |-> name,
     plus1 |-> plus1, value |-> value, soft |-> soft]

\* the terms dict: the search rules of each location
Terms ==
    [file_content |->
        <<Info("MS:1000524", FALSE, "Data file content", TRUE, FALSE, FALSE),
          Info("MS:1000525", FALSE, "Spectrum representation", FALSE, FALSE, FALSE)>>,
     source_file |->
        <<Info("MS:1000767", FALSE, "Native spectrum identifier format", FALSE, FALSE, FALSE),
          Info("MS:1000561", FALSE, "Raw data file checksum type", TRUE, TRUE, FALSE),
          Info("MS:1000560", FALSE, "Raw data file format", FALSE, FALSE, FALSE)>>,
     ionization |->
        <<Info("MS:1000482", TRUE, "source_attribute", TRUE, TRUE, FALSE),
          Info("MS:1000008", FALSE, "Ion source", FALSE, FALSE, FALSE),
          Info("MS:1000007", FALSE, "Inlet type", FALSE, FALSE, FALSE)>>,
     analyzer |->
        <<Info("MS:1000480", TRUE, "analyzer_attribute", TRUE, TRUE, FALSE),
          Info("MS:1000443", FALSE, "Mass analyzer", FALSE, FALSE, FALSE)>>,
     detector |->
        <<Info("MS:1000481", TRUE, "detector_attribute", TRUE, TRUE, FALSE),
          Info("MS:1000026", FALSE, "Detector", FALSE, FALSE, FALSE),
          Info("MS:1000027", FALSE, "Detector mode", TRUE, FALSE, FALSE)>>,
     data_processing |->
        <<Info("MS:1000630", TRUE, "data_processing_parameter", TRUE, TRUE, TRUE),
          Info("MS:1000452", FALSE, "data transformation", TRUE, FALSE, TRUE)>>]

\* e.tag of a cvParam element
CvParamTag == "{http://psi.hupo.org/ms/mzml}cvParam"

\* a cvParam element: its attributes and the softwareRef of its parent
CvParam(accession, value, softwareRef) ==
    [accession |-> accession, name |-> Translator[accession], value |-> value,
     softwareRef |-> softwareRef]

\* position of a key in an OrderedDict (0 when absent)
KeyIdx(m, key) ==
    IF \E i \in DOMAIN m : m[i][1] = key
    THEN CHOOSE i \in DOMAIN m : m[i][1] = key
    ELSE 0

HasKey(m, key) == KeyIdx(m, key) # 0

\* m[key]
Get(m, key) == m[KeyIdx(m, key)][2]

\* m[key] = val: a new key goes last, an old key keeps its place
Set(m, key, val) ==
    IF HasKey(m, key)
    THEN [m EXCEPT ![KeyIdx(m, key)] = <<key, val>>]
    ELSE Append(m, <<key, val>>)

\* {'accession': ..., 'name': ...}
Annotation(e) == [accession |-> e.accession, name |-> e.name]

\* {'accession': ..., 'name': ..., 'value': ...}
ValuedAnnotation(e) == [accession |-> e.accession, name |-> e.name, value |-> e.value]

\* software(): the loop over the cvParam children of the matching software
RECURSIVE SoftwareCvParams(_, _, _)
SoftwareCvParams(m, cvs, name) ==
    IF cvs = <<>> THEN m
    ELSE SoftwareCvParams(Set(m, name \o " software", Annotation(Head(cvs))),
                          Tail(cvs), name)

\* software(): the loop over the software elements of the document
RECURSIVE SoftwareLoop(_, _, _, _)
SoftwareLoop(m, elements, soft_ref, name) ==
    IF elements = <<>> THEN m
    ELSE LET e == Head(elements)
             m1 == IF e.version # ""
                   THEN Set(m, name \o " software version", [value |-> e.version])
                   ELSE m
         IN  IF e.id = soft_ref
             THEN SoftwareLoop(SoftwareCvParams(m1, e.cvParam, name),
                               Tail(elements), soft_ref, name)
             ELSE SoftwareLoop(m, Tail(elements), soft_ref, name)

software(m, soft_ref, name) == SoftwareLoop(m, tree.softwareList, soft_ref, name)

\* a variant of the term test that accepts every element
IsTerm_Any(e, accession) == e.accession \in PsiMsIds

\* cvParam_loop: is the element one of the terms looked for
IsTerm(e, accession) == e.accession \in Descendents[accession]

\* cvParam_loop: what one matching rule does with one element; st = [meta, c]
Record(st, e, info) ==
    LET meta_name == IF info.attribute THEN CvParamTag ELSE info.name
        entry == IF info.value THEN ValuedAnnotation(e) ELSE Annotation(e)
        old == IF HasKey(st.meta, meta_name) THEN Get(st.meta, meta_name) ELSE <<>>
        listed == IF HasKey(st.meta, meta_name) /\ "entry_list" \in DOMAIN old
                  THEN [entry_list |-> (st.c :> entry) @@ old.entry_list]
                  ELSE [entry_list |-> (st.c :> entry)]
        m1 == IF info.plus1
              THEN Set(st.meta, meta_name, listed)
              ELSE Set(st.meta, meta_name, entry)
        m2 == IF info.soft THEN software(m1, e.softwareRef, meta_name) ELSE m1
    IN  [meta |-> m2, c |-> IF info.plus1 THEN st.c + 1 ELSE st.c]

\* cvParam_loop: the loop over the rules of the location, for one element
RECURSIVE RulesLoop(_, _, _)
RulesLoop(st, e, rules) ==
    IF rules = <<>> THEN st
    ELSE RulesLoop(IF IsTerm(e, Head(rules).accession)
                   THEN Record(st, e, Head(rules))
                   ELSE st,
                   e, Tail(rules))

\* cvParam_loop: the loop over the elements
RECURSIVE ElementsLoop(_, _, _)
ElementsLoop(st, elements, rules) ==
    IF elements = <<>> THEN st
    ELSE ElementsLoop(RulesLoop(st, Head(elements), rules), Tail(elements), rules)

cvParam_loop(m, elements, location_name) ==
    ElementsLoop([meta |-> m, c |-> 1], elements, Terms[location_name]).meta

\* range(10): the steps the manufacturer walk may take
WalkCap == 10

\* bare return value of a method that raised
Raised == [ok |-> FALSE]

Returned(m) == [ok |-> TRUE, meta |-> m]

\* a variant of the walk that stops at the first parent it reads
ManufacturerWalk_FirstParent(m, parent, i) ==
    IF parent = <<>> THEN Raised
    ELSE Returned(Set(m, "Instrument manufacturer",
                      [accession |-> parent[1], name |-> Translator[parent[1]]]))

\* instrument(): the walk up the parents of the instrument term
RECURSIVE ManufacturerWalk(_, _, _)
ManufacturerWalk(m, parent, i) ==
    IF i = WalkCap THEN Returned(m)
    ELSE IF parent = <<>> THEN Raised
    ELSE IF parent[1] \in OboTerms["MS:1000031"].c
         THEN Returned(Set(m, "Instrument manufacturer",
                           [accession |-> parent[1], name |-> Translator[parent[1]]]))
         ELSE ManufacturerWalk(m, OboTerms[parent[1]].p, i + 1)

\* instrument(): the loop over the cvParam children of the referenced group
RECURSIVE InstrumentCvParams(_, _)
InstrumentCvParams(m, instrument_e) ==
    IF instrument_e = <<>> THEN Returned(m)
    ELSE LET ie == Head(instrument_e)
             r == IF ie.accession \in Descendents["MS:1000031"]
                  THEN ManufacturerWalk(Set(m, "Instrument", Annotation(ie)),
                                        OboTerms[ie.accession].p, 0)
                  ELSE IF ie.accession = "MS:1000529"
                  THEN Returned(Set(m, "Instrument serial number", [value |-> ie.value]))
                  ELSE Returned(m)
         IN  IF r.ok THEN InstrumentCvParams(r.meta, Tail(instrument_e)) ELSE Raised

\* instrument(): the loop over the referenceable parameter groups
RECURSIVE GroupsLoop(_, _, _)
GroupsLoop(m, elements, ic_ref) ==
    IF elements = <<>> THEN Returned(m)
    ELSE LET r == IF Head(elements).id = ic_ref
                  THEN InstrumentCvParams(m, Head(elements).cvParam)
                  ELSE Returned(m)
         IN  IF r.ok THEN GroupsLoop(r.meta, Tail(elements), ic_ref) ELSE Raised

\* the values an xpath ending in an attribute or element of the instrument
\* configurations selects: those of every configuration, in document order
RECURSIVE ConfigValues(_, _)
ConfigValues(configs, field) ==
    IF configs = <<>> THEN <<>>
    ELSE (IF field = "ref" THEN Head(configs).ref ELSE Head(configs).softwareRef)
         \o ConfigValues(Tail(configs), field)

instrument(m) ==
    LET ic_refs == ConfigValues(tree.instrumentConfiguration, "ref")
        soft_refs == ConfigValues(tree.instrumentConfiguration, "softwareRef")
        r == GroupsLoop(m, tree.referenceableParamGroup, ic_refs[1])
    IN  IF ic_refs = <<>> THEN Raised
        ELSE IF ~r.ok THEN Raised
        ELSE IF soft_refs = <<>> THEN Raised
        ELSE Returned(software(r.meta, soft_refs[1], "Instrument"))

\* the cvParam elements an xpath below the spectra selects: those of every
\* spectrum, in document order
RECURSIVE SpectrumCvParams(_, _)
SpectrumCvParams(spectra, part) ==
    IF spectra = <<>> THEN <<>>
    ELSE (CASE part = "spectrum" -> Head(spectra).cvParam
            [] part = "scan" -> Head(spectra).scan
            [] part = "scanWindow" -> Head(spectra).scanWindow)
         \o SpectrumCvParams(Tail(spectra), part)

\* [float(i.attrib['value']) for i in cvs if i.attrib['accession'] == accession]
ValuesOf(cvs, accession) ==
    LET Is(i) == i.accession = accession
        sel == SelectSeq(cvs, Is)
    IN  [j \in DOMAIN sel |-> sel[j].value]

Min(s) == CHOOSE x \in Range(s) : \A y \in Range(s) : x <= y

Max(s) == CHOOSE x \in Range(s) : \A y \in Range(s) : x >= y

\* m/z values are held in tenths; int(x) drops the fraction
MzScale == 10

\* a variant that rounds to the nearest whole number
IntStr_Rounded(x) == ToString((x + 5) \div MzScale)

\* str(int(x)): int() drops the fraction, towards zero
IntStr(x) ==
    IF x >= 0 THEN ToString(x \div MzScale)
    ELSE "-" \o ToString((0 - x) \div MzScale)

\* retention times are held in 1/100000; round(x, 4) is the nearest 1/10000
TimeScale == 10

RoundStr(x) == ToString((x + 5) \div TimeScale) \o "e-4"

\* a variant of the test that asks for cv to begin with the text
Contains_AtStart(cs, sub) ==
    Len(cs) >= Len(sub) /\ SubSeq(cs, 1, Len(sub)) = sub

\* 'MS' in cv
RECURSIVE Contains(_, _)
Contains(cs, sub) ==
    IF Len(cs) < Len(sub) THEN FALSE
    ELSE SubSeq(cs, 1, Len(sub)) = sub \/ Contains(Tail(cs), sub)

\* a path is held as its directory, stem and extension
PathStr(f) == f.dir \o f.stem \o f.ext

\* os.path.basename(path)
basename(f) == [dir |-> "", stem |-> f.stem, ext |-> f.ext]

\* os.path.splitext(path)[0]
splitext0(f) == [dir |-> f.dir, stem |-> f.stem, ext |-> ""]

\* a variant of the polarity resolution that lets the positive flag win
Polarity_PosFirst(sp_cv) ==
    LET pos == \E i \in DOMAIN sp_cv : sp_cv[i].accession = "MS:1000130"
        neg == \E i \in DOMAIN sp_cv : sp_cv[i].accession = "MS:1000129"
    IN  IF pos THEN "positive"
        ELSE IF neg THEN "negative"
        ELSE "Not determined"

\* derived(): the polarity found on the spectra
Polarity(sp_cv) ==
    LET pos == \E i \in DOMAIN sp_cv : sp_cv[i].accession = "MS:1000130"
        neg == \E i \in DOMAIN sp_cv : sp_cv[i].accession = "MS:1000129"
    IN  IF pos /\ neg THEN "positive/negative"
        ELSE IF pos THEN "positive"
        ELSE IF neg THEN "negative"
        ELSE "Not determined"

derived(m) ==
    LET sp_cv == SpectrumCvParams(tree.spectrum, "spectrum")
        polarity == Polarity(sp_cv)
        scan_window_cv == SpectrumCvParams(tree.spectrum, "scanWindow")
        minmz_l == ValuesOf(scan_window_cv, "MS:1000501")
        maxmz_l == ValuesOf(scan_window_cv, "MS:1000500")
        mzrange == IntStr(Min(minmz_l)) \o " - " \o IntStr(Max(maxmz_l))
        time == ValuesOf(SpectrumCvParams(tree.spectrum, "scan"), "MS:1000016")
        timerange == RoundStr(Min(time)) \o " - " \o RoundStr(Max(time))
        scan_num == tree.spectrumListCount[1]
        cv == tree.cv[1]
        raw_file == tree.sourceFile[1]
        m1 == Set(m, "term_source", [value |-> "MS"])
        m2 == Set(m1, "Raw Spectral Data File", [value |-> PathStr(raw_file)])
        m3 == Set(m2, "MS Assay Name", [value |-> PathStr(splitext0(basename(raw_file)))])
        m4 == Set(m3, "Number of scans", [value |-> scan_num])
        m5 == Set(m4, "Scan m/z range", [value |-> mzrange])
        m6 == Set(m5, "Scan polarity", [value |-> polarity])
        m7 == Set(m6, "Time range", [value |-> timerange])
        m8 == Set(m7, "Derived Spectral Data File", [value |-> PathStr(basename(in_file))])
    IN  IF minmz_l = <<>> \/ maxmz_l = <<>> \/ time = <<>> THEN Raised
        ELSE IF tree.spectrumListCount = <<>> \/ tree.cv = <<>> THEN Raised
        ELSE IF ~Contains(Chars(cv), Chars("MS")) THEN Returned(m)
        ELSE IF tree.sourceFile = <<>> THEN Raised
        ELSE Returned(m8)

\* a variant of the allow-list that also keeps the derived file name
keep_WithDerivedFile ==
    {"data transformation", "data transformation software version",
     "data transformation software", "term_source", "Raw Spectral Data File",
     "MS Assay Name", "Derived Spectral Data File"}

\* isa_tab_compatible(): the names that are kept as they are
keep ==
    {"data transformation", "data transformation software version",
     "data transformation software", "term_source", "Raw Spectral Data File",
     "MS Assay Name"}

RECURSIVE IsaLoop(_, _)
IsaLoop(isa, m) ==
    IF m = <<>> THEN isa
    ELSE LET meta_name == Head(m)[1]
         IN  IsaLoop(Set(isa,
                         IF meta_name \in keep THEN meta_name
                         ELSE "Parameter Value[" \o meta_name \o "]",
                         Head(m)[2]),
                     Tail(m))

isa_tab_compatible(isa, m) == IsaLoop(isa, m)


-----------------------------------------------------------------------------
(* The documents the extractor is run on *)

\* cvParam elements found at each location
LocationCvParams ==
    [file_content |-> {CvParam("MS:1000579", "", ""), CvParam("MS:1000127", "", "")},
     source_file |-> {CvParam("MS:1000569", "ab12cd", "")},
     ionization |-> {CvParam("MS:1000486", "3500", ""), CvParam("MS:1000398", "", ""),
                     CvParam("MS:1000511", "1", "")},
     analyzer |-> {CvParam("MS:1000014", "5", ""), CvParam("MS:1000484", "", "")},
     detector |-> {CvParam("MS:1000028", "60000", ""), CvParam("MS:1000117", "", "")},
     data_processing |-> {CvParam("MS:1000747", "12:00", "pwiz"),
                          CvParam("MS:1000544", "", "Xcalibur")}]

\* cvParam elements found in a referenceable parameter group
GroupCvParams ==
    {CvParam("MS:1001911", "", ""), CvParam("MS:1000932", "", ""),
     CvParam("X:11", "", ""), CvParam("X:12", "", ""),
     CvParam("MS:1000483", "", ""), CvParam("MS:1000529", "SN0042", "")}

SpectrumParam(accession, value) == [accession |-> accession, value |-> value]

\* spectra: positive, negative, without a polarity term, without any cvParam
Spectra ==
    {[cvParam |-> <<SpectrumParam("MS:1000511", 1), SpectrumParam("MS:1000130", 0)>>,
      scan |-> <<SpectrumParam("MS:1000016", 236)>>,
      scanWindow |-> <<SpectrumParam("MS:1000501", 500), SpectrumParam("MS:1000500", 5007)>>],
     [cvParam |-> <<SpectrumParam("MS:1000129", 0)>>,
      scan |-> <<SpectrumParam("MS:1000016", 1299960)>>,
      scanWindow |-> <<SpectrumParam("MS:1000501", 552), SpectrumParam("MS:1000500", 4999)>>],
     [cvParam |-> <<SpectrumParam("MS:1000511", 2)>>,
      scan |-> <<SpectrumParam("MS:1000016", 4255)>>,
      scanWindow |-> <<SpectrumParam("MS:1000501", 700), SpectrumParam("MS:1000500", 3000)>>],
     [cvParam |-> <<>>, scan |-> <<>>, scanWindow |-> <<>>]}

SeqsUpTo(S, n) == UNION {[1..m -> S] : m \in 0..n}

\* the elements of a listing of <<location, element>> that sit at one location
ElementsAt(placed, l) ==
    LET At(p) == p[1] = l
        sel == SelectSeq(placed, At)
    IN  [j \in DOMAIN sel |-> sel[j][2]]

Placements == UNION {{<<Locations[i], e>> : e \in LocationCvParams[Locations[i]]} :
                        i \in DOMAIN Locations}

RawFile == [dir |-> "C:/data/", stem |-> "sample", ext |-> ".raw"]

\* a document with one instrument configuration and one positive spectrum
BaseTree ==
    [cvParam |-> [l \in Range(Locations) |->
                    IF l = "file_content" THEN <<CvParam("MS:1000579", "", "")>> ELSE <<>>],
     instrumentConfiguration |->
        <<[ref |-> <<"CommonInstrumentParams">>, softwareRef |-> <<"Xcalibur">>]>>,
     referenceableParamGroup |->
        <<[id |-> "CommonInstrumentParams",
           cvParam |-> <<CvParam("MS:1001911", "", ""), CvParam("MS:1000529", "SN0042", "")>>]>>,
     softwareList |->
        <<[id |-> "Xcalibur", version |-> "", cvParam |-> <<CvParam("MS:1000532", "", "")>>],
          [id |-> "pwiz", version |-> "3.0.9", cvParam |-> <<CvParam("MS:1000615", "", "")>>]>>,
     spectrum |-> <<CHOOSE s \in Spectra : Len(s.cvParam) = 2>>,
     spectrumListCount |-> <<1>>,
     cv |-> <<"MS", "UO">>,
     sourceFile |-> <<RawFile>>]

\* documents that differ in the cvParam elements of the six locations
LocationTrees ==
    {[BaseTree EXCEPT !.cvParam = [l \in Range(Locations) |-> ElementsAt(placed, l)]] :
        placed \in SeqsUpTo(Placements, MaxCvParams)}

\* lists of instrument configurations: none, one, two, and a first one that
\* references no parameter group
ConfigLists ==
    LET first == [ref |-> <<"CommonInstrumentParams">>, softwareRef |-> <<"Xcalibur">>]
        other == [ref |-> <<"OtherInstrumentParams">>, softwareRef |-> <<"pwiz">>]
        bare == [ref |-> <<>>, softwareRef |-> <<>>]
    IN  {<<>>, <<first>>, <<first, other>>, <<bare, other>>}

\* documents that differ in the instrument configurations and the first group
InstrumentTrees ==
    {[BaseTree EXCEPT
        !.instrumentConfiguration = configs,
        !.referenceableParamGroup =
            <<[id |-> "CommonInstrumentParams", cvParam |-> group],
              [id |-> "OtherInstrumentParams",
               cvParam |-> <<CvParam("MS:1000932", "", "")>>]>>] :
        configs \in ConfigLists, group \in SeqsUpTo(GroupCvParams, MaxCvParams)}

\* documents that differ in the run, the vocabulary list and the source files
RunTrees ==
    {[BaseTree EXCEPT !.spectrum = spectra, !.spectrumListCount = <<Len(spectra)>>,
                      !.cv = cv, !.sourceFile = sourceFile] :
        spectra \in SeqsUpTo(Spectra, MaxSpectra),
        cv \in {<<"MS", "UO">>, <<"UO", "MS">>, <<"IMS">>, <<>>},
        sourceFile \in {<<RawFile>>, <<>>}}

Reverse(s) == [i \in DOMAIN s |-> s[Len(s) + 1 - i]]

ExtInit ==
    /\ GenIdle
    /\ OboIdle
    /\ MrgIdle
    /\ RowIdle
    /\ UpdIdle
    /\ PlatIdle
    /\ pc = "extract"
    /\ tree \in LocationTrees \cup InstrumentTrees \cup RunTrees
    /\ in_file \in {[dir |-> "/data/mzml/", stem |-> "sample", ext |-> ".mzML"],
                    [dir |-> "", stem |-> "sample", ext |-> ".mzML"]}
    /\ order \in {Locations, Reverse(Locations)}
    /\ loc = 1
    /\ meta = <<>>
    /\ meta_isa = <<>>

\* extract_meta(): one pass of the loop over the locations
ExtractLocation ==
    /\ pc = "extract"
    /\ meta' = cvParam_loop(meta, tree.cvParam[order[loc]], order[loc])
    /\ loc' = loc + 1
    /\ pc' = IF loc = Len(order) THEN "instrument" ELSE "extract"
    /\ UNCHANGED <<tree, in_file, order, meta_isa>>
    /\ UNCHANGED <<tpl, metalist, separate_polarity, idx, pre_row, new_mass_row,
                   sample_names, full_row, headers_row, todo, written_assays,
                   files, investigation, study_file, obo_vars, mrg_vars,
                   row_vars, upd_vars, plat_vars>>

\* self.instrument(); an exception leaves the constructor
Instrument ==
    /\ pc = "instrument"
    /\ LET r == instrument(meta)
       IN  IF r.ok
           THEN meta' = r.meta /\ pc' = "derived"
           ELSE meta' = meta /\ pc' = "raised"
    /\ UNCHANGED <<tree, in_file, order, loc, meta_isa>>
    /\ UNCHANGED <<tpl, metalist, separate_polarity, idx, pre_row, new_mass_row,
                   sample_names, full_row, headers_row, todo, written_assays,
                   files, investigation, study_file, obo_vars, mrg_vars,
                   row_vars, upd_vars, plat_vars>>

\* self.derived(); an exception leaves the constructor
Derived ==
    /\ pc = "derived"
    /\ LET r == derived(meta)
       IN  IF r.ok
           THEN meta' = r.meta /\ pc' = "isa"
           ELSE meta' = meta /\ pc' = "raised"
    /\ UNCHANGED <<tree, in_file, order, loc, meta_isa>>
    /\ UNCHANGED <<tpl, metalist, separate_polarity, idx, pre_row, new_mass_row,
                   sample_names, full_row, headers_row, todo, written_assays,
                   files, investigation, study_file, obo_vars, mrg_vars,
                   row_vars, upd_vars, plat_vars>>

\* self.isa_tab_compatible() and json.dumps: the constructor returns
IsaTabCompatible ==
    /\ pc = "isa"
    /\ meta_isa' = isa_tab_compatible(meta_isa, meta)
    /\ pc' = "constructed"
    /\ UNCHANGED <<tree, in_file, order, loc, meta>>
    /\ UNCHANGED <<tpl, metalist, separate_polarity, idx, pre_row, new_mass_row,
                   sample_names, full_row, headers_row, todo, written_assays,
                   files, investigation, study_file, obo_vars, mrg_vars,
                   row_vars, upd_vars, plat_vars>>

ExtNext == ExtractLocation \/ Instrument \/ Derived \/ IsaTabCompatible

SpecExt == ExtInit /\ [][ExtNext]_vars


-----------------------------------------------------------------------------
(* Properties of the extractor *)

\* does the accession occur as a cvParam of some spectrum of the run
OccursOnSomeSpectrum(accession) ==
    \E s \in DOMAIN tree.spectrum :
        \E i \in DOMAIN tree.spectrum[s].cvParam :
            tree.spectrum[s].cvParam[i].accession = accession

PolarityIs(m, key, text) == HasKey(m, key) /\ Get(m, key).value = text

\* C5: once derived() has recorded a polarity, it is "positive/negative" when
\* MS:1000130 and MS:1000129 each occur on some spectrum, "positive" when only
\* MS:1000130 occurs, "negative" when only MS:1000129 occurs, and
\* "Not determined" when neither occurs; the ISA projection carries the same.
C5_PolarityResolution ==
    LET pos == OccursOnSomeSpectrum("MS:1000130")
        neg == OccursOnSomeSpectrum("MS:1000129")
        expected == CASE pos /\ neg -> "positive/negative"
                      [] pos /\ ~neg -> "positive"
                      [] ~pos /\ neg -> "negative"
                      [] ~pos /\ ~neg -> "Not determined"
    IN  /\ HasKey(meta, "Scan polarity") => Get(meta, "Scan polarity").value = expected
        /\ pc = "constructed" /\ HasKey(meta, "Scan polarity")
              => PolarityIs(meta_isa, "Parameter Value[Scan polarity]", expected)

\* C5 witness: a constructed record whose polarity is "positive/negative",
\* the two terms sitting on different spectra
C5_Witness ==
    /\ pc = "constructed"
    /\ PolarityIs(meta, "Scan polarity", "positive/negative")
    /\ \A s \in DOMAIN tree.spectrum :
          ~ (\E i, j \in DOMAIN tree.spectrum[s].cvParam :
                /\ tree.spectrum[s].cvParam[i].accession = "MS:1000130"
                /\ tree.spectrum[s].cvParam[j].accession = "MS:1000129")

\* the descendant closure of a term, read off the declared parents: the terms
\* that have it among their ancestors-or-self
ClosureOf(accession) ==
    {u \in PsiMsIds : accession \in Ascend(OboTerms, {u}, {})}

\* the annotations a step has stored under a key: the plain field or the
\* entries of its entry_list that are new or differ from what was there
StoredAt(old, new, key) ==
    LET val == Get(new, key)
        was == IF HasKey(old, key) THEN Get(old, key) ELSE <<>>
    IN  IF ~HasKey(new, key) \/ (HasKey(old, key) /\ was = val) THEN {}
        ELSE IF "entry_list" \in DOMAIN val
        THEN {val.entry_list[c] : c \in
                {d \in DOMAIN val.entry_list :
                    ~ (/\ "entry_list" \in DOMAIN was
                       /\ d \in DOMAIN was.entry_list
                       /\ was.entry_list[d] = val.entry_list[d])}}
        ELSE IF "accession" \in DOMAIN val THEN {val}
        ELSE {}

\* the key a rule records under
MetaNameOf(info) == IF info.attribute THEN CvParamTag ELSE info.name

\* C6: every CV annotation a cvParam_loop pass stores under the key of a rule
\* of its location has an accession in the descendant closure of such a rule's
\* accession, and every annotation instrument() stores under "Instrument" or
\* "Instrument manufacturer" has an accession in the closure of MS:1000031.
C6_RecordedUnderRule ==
    [][ /\ pc = "extract" =>
            \A r \in DOMAIN Terms[order[loc]] :
                \A a \in StoredAt(meta, meta', MetaNameOf(Terms[order[loc]][r])) :
                    \E q \in DOMAIN Terms[order[loc]] :
                        /\ MetaNameOf(Terms[order[loc]][q]) = MetaNameOf(Terms[order[loc]][r])
                        /\ a.accession \in ClosureOf(Terms[order[loc]][q].accession)
        /\ pc = "instrument" =>
            \A key \in {"Instrument", "Instrument manufacturer"} :
                \A a \in StoredAt(meta, meta', key) :
                    a.accession \in ClosureOf("MS:1000031")
      ]_vars

\* C6 witness: a record holding an Ion source that is a grandchild of its rule
\* term, an attribute entry and an Instrument
C6_Witness ==
    /\ pc = "constructed"
    /\ HasKey(meta, "Ion source")
    /\ Get(meta, "Ion source").accession = "MS:1000398"
    /\ HasKey(meta, CvParamTag)
    /\ HasKey(meta, "Instrument")

\* the number of is_a steps from a term up to MS:1000031
RECURSIVE LevelsBelowModel(_)
LevelsBelowModel(accession) ==
    IF accession = "MS:1000031" THEN 0
    ELSE 1 + LevelsBelowModel(OboTerms[accession].p[1])

\* the ancestor-or-self of a term that is a direct child of MS:1000031
ManufacturerOf(accession) ==
    CHOOSE a \in Ascend(OboTerms, {accession}, {}) :
        "MS:1000031" \in Range(OboTerms[a].p)

ManufacturerResolved ==
    /\ HasKey(meta, "Instrument manufacturer")
    /\ Get(meta, "Instrument manufacturer").accession
           = ManufacturerOf(Get(meta, "Instrument").accession)
    /\ Get(meta, "Instrument manufacturer").name
           = Translator[ManufacturerOf(Get(meta, "Instrument").accession)]

InstrumentRan == pc \in {"derived", "isa", "constructed"}

\* C7 as stated: after instrument(), for an Instrument 2 or more levels below
\* MS:1000031 the recorded manufacturer is its ancestor directly below
\* MS:1000031, named as the Translator names it.
C7_ManufacturerAnyDepth ==
    (/\ InstrumentRan
     /\ HasKey(meta, "Instrument")
     /\ LevelsBelowModel(Get(meta, "Instrument").accession) >= 2)
        => ManufacturerResolved

\* C7 amended: after instrument(), for an Instrument 2 to 11 levels below
\* MS:1000031 (within the reach of the capped walk) the recorded manufacturer
\* is its ancestor directly below MS:1000031, named as the Translator names it.
C7_ManufacturerWithinCap ==
    (/\ InstrumentRan
     /\ HasKey(meta, "Instrument")
     /\ LevelsBelowModel(Get(meta, "Instrument").accession) \in 2..(WalkCap + 1))
        => ManufacturerResolved

\* C7 witness: an Instrument 11 levels down, resolved to its top ancestor
C7_Witness ==
    /\ pc = "constructed"
    /\ HasKey(meta, "Instrument")
    /\ Get(meta, "Instrument").accession = "X:11"
    /\ HasKey(meta, "Instrument manufacturer")
    /\ Get(meta, "Instrument manufacturer").accession = "X:01"

DerivedFields ==
    {"term_source", "Raw Spectral Data File", "MS Assay Name", "Number of scans",
     "Scan m/z range", "Scan polarity", "Time range", "Derived Spectral Data File"}

\* C8: a record the constructor hands to its caller holds every derived
\* field, in meta and (renamed) in the ISA projection.
C8_NoPartialEmission ==
    pc = "constructed" =>
        \A f \in DerivedFields :
            /\ HasKey(meta, f)
            /\ HasKey(meta_isa, f) \/ HasKey(meta_isa, "Parameter Value[" \o f \o "]")


\* the projected name the renaming rule gives a raw key
ProjectedName(key) ==
    IF key \in {"data transformation", "data transformation software version",
                "data transformation software", "term_source",
                "Raw Spectral Data File", "MS Assay Name"}
    THEN key
    ELSE "Parameter Value[" \o key \o "]"

\* C11: the ISA projection of a constructed record has one field per raw
\* field, in the same order and with the same value; allow-listed keys are
\* kept, every other key k becomes "Parameter Value[k]", and no two fields
\* of the projection share a key.
C11_IsaRenaming ==
    pc = "constructed" =>
        /\ Len(meta_isa) = Len(meta)
        /\ \A i \in DOMAIN meta :
              /\ meta_isa[i][1] = ProjectedName(meta[i][1])
              /\ meta_isa[i][2] = meta[i][2]
        /\ \A i, j \in DOMAIN meta_isa : meta_isa[i][1] = meta_isa[j][1] => i = j

\* C11 witness: a projection holding kept keys and renamed keys, the derived
\* file name among the renamed ones
C11_Witness ==
    /\ pc = "constructed"
    /\ HasKey(meta, "data transformation")
    /\ HasKey(meta_isa, "data transformation software")
    /\ HasKey(meta_isa, "MS Assay Name")
    /\ HasKey(meta_isa, "Parameter Value[Derived Spectral Data File]")
    /\ HasKey(meta_isa, "Parameter Value[Instrument]")

\* every scan-window value of the run recorded under the accession
WindowValues(accession) ==
    UNION {{tree.spectrum[s].scanWindow[i].value :
                i \in {j \in DOMAIN tree.spectrum[s].scanWindow :
                         tree.spectrum[s].scanWindow[j].accession = accession}} :
            s \in DOMAIN tree.spectrum}

\* the whole number of m/z units in a non-negative value held in tenths
WholePart(x) == CHOOSE n \in 0..x : n * MzScale <= x /\ x < (n + 1) * MzScale

\* C12: the recorded m/z range is "<lo> - <hi>", lo the whole part of the
\* least MS:1000501 scan-window value of the run and hi the whole part of the
\* greatest MS:1000500 scan-window value of the run.
C12_MzRange ==
    HasKey(meta, "Scan m/z range") =>
        LET lows == WindowValues("MS:1000501")
            highs == WindowValues("MS:1000500")
            lo == CHOOSE x \in lows : \A y \in lows : x <= y
            hi == CHOOSE x \in highs : \A y \in highs : x >= y
        IN  Get(meta, "Scan m/z range").value
                = ToString(WholePart(lo)) \o " - " \o ToString(WholePart(hi))

\* C12 witness: lows {50.0, 55.2} and highs {500.7, 499.9} on two spectra
\* give "50 - 500"
C12_Witness ==
    /\ pc = "constructed"
    /\ WindowValues("MS:1000501") = {500, 552}
    /\ WindowValues("MS:1000500") = {5007, 4999}
    /\ Get(meta, "Scan m/z range").value = "50 - 500"

\* the rules of a location that an element matches, by the declared parents
MatchedRules(e, location_name) ==
    {r \in DOMAIN Terms[location_name] :
        e.accession \in ClosureOf(Terms[location_name][r].accession)}

\* the value of the running counter of a location when its j-th element is
\* reached: 1 plus the matches of multiple rules before it
CounterAt(location_name, j) ==
    1 + Cardinality({k \in 1..(j - 1) :
            \E r \in MatchedRules(tree.cvParam[location_name][k], location_name) :
                Terms[location_name][r].plus1})

\* is the element held in m in the form the field-key rule gives it
StoredByKeyRule(m, e, info, c) ==
    IF info.attribute /\ info.plus1
    THEN HasKey(m, CvParamTag \o ToString(c))
    ELSE IF info.attribute
    THEN HasKey(m, CvParamTag)
    ELSE IF info.plus1
    THEN /\ HasKey(m, info.name)
         /\ "entry_list" \in DOMAIN Get(m, info.name)
         /\ c \in DOMAIN Get(m, info.name).entry_list
         /\ Get(m, info.name).entry_list[c].accession = e.accession
    ELSE /\ HasKey(m, info.name)
         /\ "accession" \in DOMAIN Get(m, info.name)

\* C17: after a cvParam_loop pass over a location, every element that
\* matched a rule is held under the key the field-key rule gives: tag plus
\* counter for an attribute and multiple rule, the tag for an attribute-only
\* rule, the display name with an entry_list entry at the counter for a
\* multiple-only rule, the display name with a plain annotation otherwise.
C17_FieldKeyRule ==
    [][ pc = "extract" =>
          \A j \in DOMAIN tree.cvParam[order[loc]] :
              \A r \in MatchedRules(tree.cvParam[order[loc]][j], order[loc]) :
                  StoredByKeyRule(meta', tree.cvParam[order[loc]][j],
                                  Terms[order[loc]][r], CounterAt(order[loc], j))
      ]_vars

\* the accessions of the cvParam elements below the element of the list with
\* the given id
AccessionsUnder(elements, id) ==
    UNION {{elements[i].cvParam[j].accession : j \in DOMAIN elements[i].cvParam} :
               i \in {k \in DOMAIN elements : elements[k].id = id}}

\* the field is absent, or annotates a cvParam of the element the first
\* configuration's reference names
FromFirstConfiguration(field, refs, elements) ==
    HasKey(meta, field) =>
        /\ refs # <<>>
        /\ Get(meta, field).accession \in AccessionsUnder(elements, refs[1])

\* C20: first instrument configuration only.  After instrument(), for a
\* document with several instrumentConfiguration elements, the Instrument
\* fields come from the parameter group and the software that the first
\* configuration references, never from those a later one references.
C20_FirstConfigurationOnly ==
    (InstrumentRan /\ Len(tree.instrumentConfiguration) > 1) =>
        /\ FromFirstConfiguration("Instrument", tree.instrumentConfiguration[1].ref,
                                  tree.referenceableParamGroup)
        /\ FromFirstConfiguration("Instrument software",
                                  tree.instrumentConfiguration[1].softwareRef,
                                  tree.softwareList)

\* the instrument terms among the cvParam elements of the parameter group that
\* instrument() reads (none when no reference is declared)
GroupInstrumentTerms ==
    LET ic_refs == ConfigValues(tree.instrumentConfiguration, "ref")
    IN  IF ic_refs = <<>> THEN <<>>
        ELSE LET g == CHOOSE i \in DOMAIN tree.referenceableParamGroup :
                          tree.referenceableParamGroup[i].id = ic_refs[1]
                 cvs == tree.referenceableParamGroup[g].cvParam
             IN  [j \in 1..Cardinality({k \in DOMAIN cvs :
                                           cvs[k].accession \in Descendents["MS:1000031"]})
                    |-> cvs[CHOOSE k \in DOMAIN cvs :
                              /\ cvs[k].accession \in Descendents["MS:1000031"]
                              /\ Cardinality({l \in 1..(k - 1) :
                                    cvs[l].accession \in Descendents["MS:1000031"]}) = j - 1
                           ].accession]

\* the ancestor walk of the term meets no direct child of MS:1000031 within
\* the cap: the term is MS:1000031, a direct child, or too deep
WalkMeetsNoChild(accession) ==
    LevelsBelowModel(accession) \notin 2..(WalkCap + 1)

\* C21: the manufacturer walk never aborts extraction.  For a document whose
\* parameter group holds one instrument term whose ancestor walk meets no
\* direct child of MS:1000031, instrument() completes with that Instrument
\* recorded and no Instrument manufacturer.
C21_WalkNeverAborts ==
    [][(/\ pc = "instrument"
        /\ ConfigValues(tree.instrumentConfiguration, "softwareRef") # <<>>
        /\ Len(GroupInstrumentTerms) = 1
        /\ WalkMeetsNoChild(GroupInstrumentTerms[1]))
           => /\ pc' = "derived"
              /\ HasKey(meta', "Instrument")
              /\ Get(meta', "Instrument").accession = GroupInstrumentTerms[1]
              /\ ~HasKey(meta', "Instrument manufacturer")]_vars

\* the characters hold an "M" directly followed by an "S"
HoldsMS(cs) == \E i \in 1..(Len(cs) - 1) : cs[i] = "M" /\ cs[i + 1] = "S"

\* the spectra give derived() a scan window and a scan time to work with
RangesComputable ==
    /\ ValuesOf(SpectrumCvParams(tree.spectrum, "scanWindow"), "MS:1000501") # <<>>
    /\ ValuesOf(SpectrumCvParams(tree.spectrum, "scanWindow"), "MS:1000500") # <<>>
    /\ ValuesOf(SpectrumCvParams(tree.spectrum, "scan"), "MS:1000016") # <<>>

\* C24: the CV source check of derived().  When the first declared CV id does
\* not hold the text "MS", derived() records none of the derived fields and
\* leaves the record as it was, and it returns whenever the ranges could be
\* computed; when the id holds "MS" and derived() returns, term_source is
\* recorded with the value "MS" ahead of every other derived field.
C24_CvSourceCheck ==
    [][(pc = "derived" /\ tree.cv # <<>> /\ tree.spectrumListCount # <<>>) =>
        IF ~HoldsMS(Chars(tree.cv[1]))
        THEN /\ meta' = meta
             /\ RangesComputable => pc' = "isa"
        ELSE pc' = "isa" =>
                 /\ HasKey(meta', "term_source")
                 /\ Get(meta', "term_source") = [value |-> "MS"]
                 /\ \A f \in DerivedFields \ {"term_source"} :
                        /\ HasKey(meta', f)
                        /\ KeyIdx(meta', "term_source") < KeyIdx(meta', f)]_vars

\* derived() has returned on a document whose first CV id is "UO": the fields
\* recorded before are there and no derived field is
C24_Witness ==
    /\ pc = "isa"
    /\ tree.cv = <<"UO", "MS">>
    /\ HasKey(meta, "Instrument")
    /\ \A f \in DerivedFields : ~HasKey(meta, f)

\* the matches of multiple-allowed rules in the document: <<location,
\* element position, rule position>>
MultipleMatches ==
    UNION {{<<Locations[l], j, r>> :
                j \in DOMAIN tree.cvParam[Locations[l]],
                r \in {q \in DOMAIN Terms[Locations[l]] : Terms[Locations[l]][q].plus1}} :
           l \in DOMAIN Locations}

MultipleMatched ==
    {t \in MultipleMatches : t[3] \in MatchedRules(tree.cvParam[t[1]][t[2]], t[1])}

\* the entries held in the entry lists of the record: <<key, counter>>
StoredEntries ==
    UNION {{<<meta[i][1], c>> : c \in DOMAIN meta[i][2].entry_list} :
           i \in {k \in DOMAIN meta : "entry_list" \in DOMAIN meta[k][2]}}

\* C26: no match of a multiple-allowed rule is lost.  Once the six locations
\* have been searched, the record holds one entry per match of a
\* multiple-allowed rule: as many entries as there were matches.
C26_MultipleMatchesRetained ==
    pc # "extract" => Cardinality(StoredEntries) = Cardinality(MultipleMatched)

-----------------------------------------------------------------------------
(* The default/override merge of the curator's metadata.  A nested dict is a *)
(* function from keys to nodes; a node is a leaf [leaf |-> text] or a        *)
(* mapping [map |-> dict].                                                    *)

Leaf(text) == [leaf |-> text]

Map(d) == [map |-> d]

IsMap(node) == "map" \in DOMAIN node

\* {'value': ..., 'accession': ..., 'ref': ...}
Ontology(value, accession, ref) ==
    Map([value |-> Leaf(value), accession |-> Leaf(accession), ref |-> Leaf(ref)])

\* the fields of a publication section
Publication ==
    Map([pubmed |-> Leaf(""), doi |-> Leaf(""), author_list |-> Leaf(""),
         title |-> Leaf(""), status |-> Ontology("", "", "PSO")])

\* the fields of a contacts section
Contacts ==
    Map([first_name |-> Leaf(""), last_name |-> Leaf(""), mid_initials |-> Leaf(""),
         email |-> Leaf(""), fax |-> Leaf(""), phone |-> Leaf(""), adress |-> Leaf(""),
         affiliation |-> Leaf(""), roles |-> Ontology("", "", "")])

USERMETA ==
    [characteristics |->
        Map([organism |-> Ontology("", "", ""), variant |-> Ontology("", "", ""),
             organism_part |-> Ontology("", "", "")]),
     investigation |->
        Map([identifier |-> Leaf(""), title |-> Leaf("Investigation"),
             description |-> Leaf(""), submission_date |-> Leaf(""),
             release_date |-> Leaf("")]),
     investigation_publication |-> Publication,
     investigation_contacts |-> Contacts,
     study |->
        Map([title |-> Leaf(""), description |-> Leaf(""), submission_date |-> Leaf(""),
             release_date |-> Leaf("")]),
     study_publication |-> Publication,
     study_factors |-> Map([name |-> Leaf(""), type |-> Ontology("", "", "")]),
     study_contacts |-> Contacts,
     description |->
        Map([sample_collect |-> Leaf(""), extraction |-> Leaf(""), chroma |-> Leaf(""),
             mass_spec |-> Leaf(""), data_trans |-> Leaf(""), metabo_id |-> Leaf("")])]

\* a variant of the merge that replaces whole sections by the override's
dict_update_Shallow(d, u) ==
    [key \in DOMAIN d \cup DOMAIN u |-> IF key \in DOMAIN u THEN u[key] ELSE d[key]]

\* dict_update(d, u): d with the leaves of u laid over it, mapping by mapping
RECURSIVE dict_update(_, _)
dict_update(d, u) ==
    [key \in DOMAIN d \cup DOMAIN u |->
        IF key \notin DOMAIN u THEN d[key]
        ELSE IF IsMap(u[key])
        THEN Map(dict_update(IF key \in DOMAIN d /\ IsMap(d[key]) THEN d[key].map ELSE <<>>,
                             u[key].map))
        ELSE u[key]]

\* the key paths of a dict that end in a leaf
RECURSIVE LeafPaths(_)
LeafPaths(d) ==
    UNION {IF IsMap(d[key])
           THEN {<<key>> \o p : p \in LeafPaths(d[key].map)}
           ELSE {<<key>>} : key \in DOMAIN d}

\* the key paths of a dict that end in a mapping
RECURSIVE MapPaths(_)
MapPaths(d) ==
    UNION {IF IsMap(d[key])
           THEN {<<key>>} \cup {<<key>> \o p : p \in MapPaths(d[key].map)}
           ELSE {} : key \in DOMAIN d}

\* does the dict hold a leaf at the path
RECURSIVE HasLeafAt(_, _)
HasLeafAt(d, path) ==
    /\ Head(path) \in DOMAIN d
    /\ IF Len(path) = 1 THEN ~IsMap(d[Head(path)])
       ELSE IsMap(d[Head(path)]) /\ HasLeafAt(d[Head(path)].map, Tail(path))

\* the text of the leaf at the path
RECURSIVE LeafAt(_, _)
LeafAt(d, path) ==
    IF Len(path) = 1 THEN d[Head(path)].leaf
    ELSE LeafAt(d[Head(path)].map, Tail(path))

\* the dict that holds the given leaves and the given empty mappings;
\* leaves is a function from key paths to texts, all paths below one prefix
RECURSIVE DictOf(_, _, _)
DictOf(leaves, maps, depth) ==
    LET keys == {p[depth] : p \in DOMAIN leaves \cup maps}
    IN  [key \in keys |->
            IF \E p \in DOMAIN leaves : Len(p) = depth /\ p[depth] = key
            THEN Leaf(leaves[CHOOSE p \in DOMAIN leaves : Len(p) = depth /\ p[depth] = key])
            ELSE Map(DictOf(
                    [p \in {q \in DOMAIN leaves : q[depth] = key} |-> leaves[p]],
                    {q \in maps : Len(q) > depth /\ q[depth] = key},
                    depth + 1))]

\* the leaves and empty sections an override may hold: flat and nested
\* fields, among them the two kinds of leaf that are not blank in the default
OverridePaths ==
    {<<"investigation", "title">>, <<"study", "title">>,
     <<"study_publication", "title">>, <<"study_publication", "status", "ref">>,
     <<"characteristics", "organism", "value">>,
     <<"characteristics", "organism", "accession">>,
     <<"study_factors", "name">>, <<"description", "extraction">>,
     <<"investigation_contacts", "email">>,
     <<"study">>, <<"characteristics", "variant">>}

\* the texts a curator supplies
OverrideTexts == {"", "Homo sapiens"}

\* the overrides a caller passes: partial dicts of the shape of the default
Overrides ==
    UNION {{DictOf(leaves, ps \cap MapPaths(USERMETA), 1) :
                leaves \in [ps \cap LeafPaths(USERMETA) -> OverrideTexts]} :
            ps \in {Range(s) : s \in SeqsUpTo(OverridePaths, MaxOverrides)}}

MrgInit ==
    /\ GenIdle
    /\ OboIdle
    /\ ExtIdle
    /\ RowIdle
    /\ UpdIdle
    /\ PlatIdle
    /\ pc = "merge"
    /\ override \in Overrides
    /\ usermeta = <<>>

\* usermeta_complete(usermeta)
UsermetaComplete ==
    /\ pc = "merge"
    /\ usermeta' = dict_update(USERMETA, override)
    /\ pc' = "merged"
    /\ UNCHANGED <<override, tpl, metalist, separate_polarity, idx, pre_row,
                   new_mass_row, sample_names, full_row, headers_row, todo,
                   written_assays, files, investigation, study_file,
                   obo_vars, ext_vars, row_vars, upd_vars, plat_vars>>

MrgNext == UsermetaComplete

SpecMerge == MrgInit /\ [][MrgNext]_vars

\* C9: the merged usermeta has a leaf at every leaf path of the default; the
\* leaf is the override's where the override holds a leaf at that path and
\* the default's otherwise; so an empty override gives the default itself.
C9_MergeKeepsDefaults ==
    pc = "merged" =>
        /\ \A p \in LeafPaths(USERMETA) :
              /\ HasLeafAt(usermeta, p)
              /\ LeafAt(usermeta, p) = IF HasLeafAt(override, p)
                                       THEN LeafAt(override, p)
                                       ELSE LeafAt(USERMETA, p)
        /\ LeafPaths(usermeta) = LeafPaths(USERMETA)
        /\ (override = <<>> => usermeta = USERMETA)

\* C9 witness: one overridden leaf in a nested mapping; the sibling leaf that
\* is not blank in the default keeps its text
C9_Witness ==
    /\ pc = "merged"
    /\ LeafPaths(override) = {<<"study_publication", "title">>}
    /\ LeafAt(usermeta, <<"study_publication", "title">>) = "Homo sapiens"
    /\ LeafAt(usermeta, <<"study_publication", "status", "ref">>) = "PSO"

====
